---------------------------- MODULE Spec2Model ----------------------------
(***************************************************************************)
(* A model of the answer-orchestration core of eduagent_backend:           *)
(* SubjectAgent of src/api/agent.py with the collaborators of              *)
(* src/api/web_scraper.py and src/api/utils.py.                            *)
(*                                                                         *)
(* Text is modelled as a sequence of tokens: a token is a word, a run of   *)
(* white space, one punctuation character, or one of the tags <think> and  *)
(* </think>.  The concatenation of the tokens of a literal is the literal  *)
(* of the source.  Python's substring test (x in s) is Contains, s.lower() *)
(* is Lower, len(s) is StrLen and s.strip() is Strip.                      *)
(***************************************************************************)
EXTENDS Integers, Sequences, FiniteSets, TLC

(***************************************************************************)
(* Text                                                                    *)
(***************************************************************************)

\* str.lower() of one token.
LowerTok[t \in STRING] ==
    CASE t = "A" -> "a"
      [] t = "API" -> "api"
      [] t = "Aggregation" -> "aggregation"
      [] t = "An" -> "an"
      [] t = "Astrology" -> "astrology"
      [] t = "Based" -> "based"
      [] t = "Best" -> "best"
      [] t = "CANNOT" -> "cannot"
      [] t = "Cannot" -> "cannot"
      [] t = "Chat" -> "chat"
      [] t = "Computer" -> "computer"
      [] t = "Connection" -> "connection"
      [] t = "Could" -> "could"
      [] t = "Details" -> "details"
      [] t = "Documents" -> "documents"
      [] t = "Done" -> "done"
      [] t = "Error" -> "error"
      [] t = "Exam" -> "exam"
      [] t = "FIND" -> "find"
      [] t = "Failed" -> "failed"
      [] t = "Final" -> "final"
      [] t = "Find" -> "find"
      [] t = "Found" -> "found"
      [] t = "Google" -> "google"
      [] t = "However" -> "however"
      [] t = "I" -> "i"
      [] t = "INFORMATION" -> "information"
      [] t = "Information" -> "information"
      [] t = "Intro" -> "intro"
      [] t = "Is" -> "is"
      [] t = "Knowledge" -> "knowledge"
      [] t = "LIFO" -> "lifo"
      [] t = "LLM" -> "llm"
      [] t = "Language" -> "language"
      [] t = "Math" -> "math"
      [] t = "Missing" -> "missing"
      [] t = "Model" -> "model"
      [] t = "New" -> "new"
      [] t = "No" -> "no"
      [] t = "Not" -> "not"
      [] t = "Ollama" -> "ollama"
      [] t = "Page" -> "page"
      [] t = "Physics" -> "physics"
      [] t = "Please" -> "please"
      [] t = "Processing" -> "processing"
      [] t = "QA" -> "qa"
      [] t = "RAG" -> "rag"
      [] t = "RELEVANT" -> "relevant"
      [] t = "Read" -> "read"
      [] t = "Received" -> "received"
      [] t = "Relevant" -> "relevant"
      [] t = "RuntimeError" -> "runtimeerror"
      [] t = "Science" -> "science"
      [] t = "Scraped" -> "scraped"
      [] t = "See" -> "see"
      [] t = "Sorry" -> "sorry"
      [] t = "The" -> "the"
      [] t = "Unexpected" -> "unexpected"
      [] t = "ValueError" -> "valueerror"
      [] t = "Web" -> "web"
      [] t = "What" -> "what"
      [] OTHER -> t

\* len() of one token.
TokLen[t \in STRING] ==
    CASE t \in {"\n", " ", "(", ")", ",", "-", ".", "/", "1", ":", "?", "A", "I", "[", "]", "_",
                "a", "b", "c", "d", "e", "i"} -> 1
      [] t \in {"\n\n", "  ", "5b", "An", "Is", "No", "QA", "an", "be", "do", "in", "is", "it",
                "no", "of", "on", "or", "qa", "r1", "to"} -> 2
      [] t \in {"API", "LLM", "New", "Not", "RAG", "See", "The", "Web", "and", "any", "but",
                "did", "for", "get", "llm", "not", "one", "out", "pop", "rag", "the", "try",
                "was", "web"} -> 3
      [] t \in {"Best", "Chat", "Done", "Exam", "FIND", "Find", "LIFO", "Math", "Page", "Read",
                "What", "adds", "base", "does", "find", "from", "heap", "item", "last", "lifo",
                "load", "more", "none", "push", "seem", "some", "sync", "task", "text", "them",
                "this"} -> 4
      [] t \in {"Based", "Could", "Error", "Final", "Found", "Intro", "Model", "Sorry", "above",
                "after", "based", "chain", "could", "empty", "error", "fetch", "final", "first",
                "found", "given", "https", "might", "notes", "queue", "stack", "timed", "valid",
                "while"} -> 5
      [] t \in {"CANNOT", "Cannot", "Failed", "Google", "Ollama", "Please", "answer", "cannot",
                "course", "create", "during", "failed", "format", "newest", "please", "return",
                "scrape", "search", "source", "string", "system"} -> 6
      [] t \in {"<think>", "Details", "However", "Missing", "Physics", "Science", "Scraped",
                "contain", "content", "context", "corrupt", "depends", "doesn't", "example",
                "extract", "missing", "process", "provide", "refused", "removes", "request",
                "running", "scraped"} -> 7
      [] t \in {"</think>", "Computer", "Language", "RELEVANT", "Received", "Relevant",
                "baseline", "cleaning", "creating", "deepseek", "fallback", "handling",
                "internal", "occurred", "provided", "question", "relevant", "reliable",
                "response", "resulted", "returned", "revision", "scraping", "specific",
                "updating", "websites"} -> 8
      [] t \in {"Astrology", "Documents", "Knowledge", "available", "documents", "truncated"} -> 9
      [] t \in {"Connection", "Processing", "Unexpected", "ValueError", "collection",
                "concurrent", "connection", "contacting", "generating", "meaningful",
                "retrieving", "unexpected"} -> 10
      [] t \in {"Aggregation", "INFORMATION", "Information", "aggregation", "credentials",
                "information", "initialized", "unavailable"} -> 11
      [] t \in {"RuntimeError", "initializing", "synthesizing"} -> 12
      [] t = "[38 characters]" -> 38
      [] t = "[4927 characters]" -> 4927
      [] t = "[4964 characters]" -> 4964
      [] t = "[5000 characters]" -> 5000

\* The tokens str.strip() removes.
IsSpace(t) == t \in {" ", "  ", "\n", "\n\n", "\t"}

\* Lower as it would be if the phrases were searched in the text as it is.
NoLower(s) == s

\* s.lower()
Lower(s) == [i \in DOMAIN s |-> LowerTok[s[i]]]

\* needle in hay (h is hay, evaluated once)
Contains(hay, needle) ==
    \E h \in {hay} :
        \E i \in 0..(Len(h) - Len(needle)) : SubSeq(h, i + 1, i + Len(needle)) = needle

\* any(phrase in s for phrase in phrases)
ContainsAny(s, phrases) == \E h \in {s} : \E p \in phrases : Contains(h, p)

\* s.startswith(prefix)
StartsWith(s, prefix) == Len(prefix) <= Len(s) /\ SubSeq(s, 1, Len(prefix)) = prefix

\* len(s)
RECURSIVE StrLen(_)
StrLen(s) == IF s = << >> THEN 0 ELSE TokLen[Head(s)] + StrLen(Tail(s))

RECURSIVE LStrip(_)
LStrip(s) == IF s # << >> /\ IsSpace(Head(s)) THEN LStrip(Tail(s)) ELSE s

RECURSIVE RStrip(_)
RStrip(s) == IF s # << >> /\ IsSpace(s[Len(s)]) THEN RStrip(SubSeq(s, 1, Len(s) - 1)) ELSE s

\* s.strip()
Strip(s) == RStrip(LStrip(s))

\* s[:n], defined when the cut falls between two tokens.
Prefix(s, n) ==
    IF StrLen(s) <= n THEN s
    ELSE LET k == CHOOSE j \in 0..Len(s) : StrLen(SubSeq(s, 1, j)) = n IN SubSeq(s, 1, k)

\* The subject of the modelled agent (views.py AGENTS) and the sample questions.
Subject ==
    <<"Computer", " ", "Science">>

QUESTION_1 ==
    <<"What", " ", "is", " ", "a", " ", "stack", "?">>

QUESTION_2 ==
    <<"What", " ", "is", " ", "a", " ", "queue", "?">>

\* String literals of get_rag_answer.
RAG_INIT_ERROR ==
    <<"Error", " ", "initializing", " ", "QA", " ", "chain", " ", "for", " ">> \o Subject \o <<".", " ", "Knowledge", " ", "base", " ", "might", " ", "be", " ", "missing", " ", "or",
      " ", "corrupt", ".", " ", "Please", " ", "try", " ", "creating", "/", "updating", " ",
      "it", ".">>

RAG_NO_ANSWER ==
    <<"The", " ", "documents", " ", "for", " ">> \o Subject \o <<" ", "do", " ", "not", " ", "seem", " ", "to", " ", "contain", " ", "an", " ", "answer",
      " ", "to", " ", "this", " ", "question", ".">>

RAG_BAD_FORMAT ==
    <<"Received", " ", "an", " ", "unexpected", " ", "response", " ", "format", " ", "from",
      " ", "the", " ", "RAG", " ", "system", ".">>

RAG_NO_ANSWER_SYNC ==
    <<"The", " ", "documents", " ", "for", " ">> \o Subject \o <<" ", "do", " ", "not", " ", "seem", " ", "to", " ", "contain", " ", "an", " ", "answer",
      " ", "(", "sync", " ", "fallback", ")", ".">>

RAG_BAD_FORMAT_SYNC ==
    <<"Unexpected", " ", "sync", " ", "RAG", " ", "response", " ", "format", ".">>

RAG_ERROR_SYNC ==
    <<"An", " ", "error", " ", "occurred", " ", "retrieving", " ", "RAG", " ", "answer", " ",
      "(", "sync", " ", "fallback", ")", ".">>

RAG_ERROR ==
    <<"An", " ", "error", " ", "occurred", " ", "while", " ", "retrieving", " ", "the", " ",
      "RAG", " ", "answer", ".">>

RAG_NO_CHAIN ==
    <<"QA", " ", "chain", " ", "for", " ">> \o Subject \o <<" ", "could", " ", "not", " ", "be", " ", "initialized", ".">>

\* String literals of get_llm_answer.
LLM_EMPTY ==
    <<"LLM", " ", "returned", " ", "an", " ", "empty", " ", "response", ".">>

LLM_EMPTY_SYNC ==
    <<"LLM", " ", "returned", " ", "empty", " ", "(", "sync", " ", "fallback", ")", ".">>

LLM_ERROR_SYNC ==
    <<"An", " ", "error", " ", "occurred", " ", "contacting", " ", "LLM", " ", "(", "sync", " ",
      "fallback", ")", ".">>

LLM_ERROR ==
    <<"An", " ", "error", " ", "occurred", " ", "while", " ", "contacting", " ", "the", " ",
      "Language", " ", "Model", ".">>

\* String literals of _process_web_content.
WEB_SCRAPE_FAILED ==
    <<"Found", " ", "websites", ",", " ", "but", " ", "failed", " ", "to", " ", "scrape", " ",
      "content", " ", "from", " ", "any", " ", "of", " ", "them", ".">>

WEB_NO_SITES ==
    <<"No", " ", "websites", " ", "provided", " ", "for", " ", "scraping", ".">>

WEB_NO_CONTENT ==
    <<"Scraped", " ", "some", " ", "websites", ",", " ", "but", " ", "could", " ", "not", " ",
      "extract", " ", "meaningful", " ", "content", ".">>

WEB_SYNTH_ERROR ==
    <<"Error", " ", "synthesizing", " ", "answer", " ", "from", " ", "web", " ", "content", ".">>

WEB_NO_SPECIFIC ==
    <<"Could", " ", "not", " ", "find", " ", "a", " ", "specific", " ", "answer", " ", "from",
      " ", "the", " ", "scraped", " ", "web", " ", "content", ".">>

SCRAPE_SEP ==
    <<"\n\n">>

\* String literals of aggregate_answers.
RAG_PLACEHOLDER ==
    <<"Not", " ", "available", " ", "or", " ", "not", " ", "found", " ", "in", " ", "documents",
      ".">>

LLM_PLACEHOLDER ==
    <<"LLM", " ", "baseline", " ", "failed", " ", "or", " ", "unavailable", ".">>

WEB_PLACEHOLDER ==
    <<"Not", " ", "available", " ", "or", " ", "not", " ", "found", " ", "on", " ", "web", ".">>

SORRY_HEAD ==
    <<"Sorry", ",", " ", "I", " ", "could", " ", "not", " ", "find", " ", "a", " ", "reliable",
      " ", "answer", " ", "from", " ", "any", " ", "source", ".", "\n", "Details", ":", "\n">>

DOCS_LABEL ==
    <<"Documents", ":", " ">>

LLM_LABEL ==
    <<"LLM", ":", " ">>

WEB_LABEL ==
    <<"Web", ":", " ">>

NEWLINE ==
    <<"\n">>

AGG_EMPTY ==
    <<"Aggregation", " ", "LLM", " ", "returned", " ", "an", " ", "empty", " ", "response", " ",
      "after", " ", "cleaning", ".">>

AGG_EMPTY_SYNC ==
    <<"Aggregation", " ", "LLM", " ", "returned", " ", "empty", " ", "(", "sync", " ",
      "fallback", ")", " ", "after", " ", "cleaning", ".">>

AGG_FAILED ==
    <<"(", "Aggregation", " ", "Failed", ")">>

AGG_FAILED_DOCS ==
    <<"(", "Aggregation", " ", "Failed", ")", " ", "Best", " ", "answer", " ", "from", " ",
      "documents", ":", " ">>

AGG_FAILED_WEB ==
    <<"(", "Aggregation", " ", "Failed", ")", " ", "Best", " ", "answer", " ", "from", " ",
      "web", ":", " ">>

AGG_FAILED_LLM ==
    <<"(", "Aggregation", " ", "Failed", ")", " ", "Best", " ", "answer", " ", "from", " ",
      "baseline", " ", "LLM", ":", " ">>

AGG_NO_FALLBACK_SYNC ==
    <<"An", " ", "error", " ", "occurred", " ", "during", " ", "aggregation", " ", "(", "sync",
      " ", "fallback", ")", ",", " ", "and", " ", "no", " ", "fallback", " ", "source", " ",
      "was", " ", "available", ".">>

AGG_NO_FALLBACK ==
    <<"An", " ", "error", " ", "occurred", " ", "during", " ", "final", " ", "answer", " ",
      "aggregation", ",", " ", "and", " ", "no", " ", "fallback", " ", "source", " ", "was",
      " ", "available", ".">>

\* String literals of get_comprehensive_answer.
PROCESSING ==
    <<"Processing", ".", ".", ".">>

WEB_SEARCH_FAILED_PREFIX ==
    <<"Web", " ", "search", " ", "failed", ":", " ">>

SRC_SEARCH_FAILED ==
    <<"Web", " ", "search", " ", "failed", ".">>

WEB_NO_WEBSITES ==
    <<"Could", " ", "not", " ", "find", " ", "relevant", " ", "websites", " ", "for", " ",
      "this", " ", "question", ".">>

SRC_NO_WEBSITES ==
    <<"No", " ", "relevant", " ", "websites", " ", "found", ".">>

WEB_SEARCH_ERROR ==
    <<"An", " ", "error", " ", "occurred", " ", "during", " ", "web", " ", "search", ".">>

SRC_SEARCH_ERROR ==
    <<"Web", " ", "search", " ", "error", ".">>

RAG_TASK_ERROR_PREFIX ==
    <<"Error", " ", "in", " ", "RAG", " ", "task", ":", " ">>

LLM_TASK_ERROR_PREFIX ==
    <<"Error", " ", "in", " ", "LLM", " ", "task", ":", " ">>

WEB_TASK_ERROR_PREFIX ==
    <<"Error", " ", "in", " ", "Web", " ", "Processing", " ", "task", ":", " ">>

GATHER_ERROR ==
    <<"Error", " ", "during", " ", "concurrent", " ", "fetch">>

RAG_NOT_STRING ==
    <<"RAG", " ", "process", " ", "did", " ", "not", " ", "return", " ", "a", " ", "valid", " ",
      "string", ".">>

LLM_NOT_STRING ==
    <<"LLM", " ", "process", " ", "did", " ", "not", " ", "return", " ", "a", " ", "valid", " ",
      "string", ".">>

WEB_NOT_STRING ==
    <<"Web", " ", "process", " ", "did", " ", "not", " ", "return", " ", "a", " ", "valid", " ",
      "string", ".">>

AGG_CALL_ERROR ==
    <<"An", " ", "error", " ", "occurred", " ", "during", " ", "final", " ", "answer", " ",
      "aggregation", ".">>

FINAL_EMPTY ==
    <<"Aggregation", " ", "resulted", " ", "in", " ", "an", " ", "empty", " ", "answer", ".">>

\* String literals of web_scraper.py (google_search, query_llm).
SEARCH_NO_CREDENTIALS ==
    <<"Error", ":", " ", "Missing", " ", "Google", " ", "API", " ", "credentials", ".">>

SEARCH_REQUEST_FAILED_PREFIX ==
    <<"Error", ":", " ", "Google", " ", "API", " ", "request", " ", "failed", ":", " ">>

QUERY_LLM_EMPTY ==
    <<"Error", ":", " ", "LLM", " ", "returned", " ", "an", " ", "empty", " ", "response", ".">>

QUERY_LLM_ERROR ==
    <<"Error", " ", "generating", " ", "response", " ", "from", " ", "LLM", " ", "(",
      "deepseek", "-", "r1", ":", "1", ".", "5b", ")", ".">>

QUERY_LLM_OLLAMA_HINT ==
    <<" ", "Is", " ", "Ollama", " ", "running", "?">>

\* Sample texts the external collaborators may produce: completions, exception messages,
\* search hits and page texts.
TEXT_STACK ==
    <<"A", " ", "stack", " ", "is", " ", "a", " ", "last", "-", "in", ",", " ", "first", "-",
      "out", " ", "collection", ":", " ", "push", " ", "adds", " ", "an", " ", "item", " ",
      "and", " ", "pop", " ", "removes", " ", "the", " ", "newest", " ", "one", ".">>

TEXT_NO_INFO ==
    <<"I", " ", "cannot", " ", "find", " ", "relevant", " ", "information", " ", "in", " ",
      "the", " ", "provided", " ", "documents", ".">>

TEXT_HEDGE ==
    <<"Based", " ", "on", " ", "the", " ", "context", ",", " ", "it", " ", "depends", ".">>

TEXT_PADDED ==
    <<"  ", "A", " ", "stack", " ", "is", " ", "LIFO", ".", "\n">>

TEXT_NOT_FOUND ==
    <<"The", " ", "answer", " ", "is", " ", "not", " ", "found", " ", "in", " ", "the", " ",
      "content", ".">>

TEXT_SEE_CONTENT ==
    <<"See", " ", "the", " ", "content", " ", "above", ".">>

TEXT_THINK ==
    <<"<think>", "internal", " ", "notes", "</think>", "Final", " ", "text", ".">>

TEXT_ONLY_THINK ==
    <<"<think>", "internal", "\n", "notes", "</think>", "\n">>

TEXT_QUEUE ==
    <<"A", " ", "queue", " ", "is", " ", "a", " ", "first", "-", "in", ",", " ", "first", "-",
      "out", " ", "collection", ".">>

TEXT_FINAL ==
    <<"Final", " ", "text", ".">>

EXC_CONNECTION ==
    <<"Connection", " ", "refused">>

EXC_TIMEOUT ==
    <<"Read", " ", "timed", " ", "out">>

URL_1 ==
    <<"https", ":", "/", "/", "a", ".", "example", "/", "stack">>

URL_2 ==
    <<"https", ":", "/", "/", "b", ".", "example", "/", "lifo">>

URL_3 ==
    <<"https", ":", "/", "/", "c", ".", "example", "/", "queue">>

URL_4 ==
    <<"https", ":", "/", "/", "d", ".", "example", "/", "heap">>

URL_ERROR_PAGE ==
    <<"https", ":", "/", "/", "e", ".", "example", "/", "Error", "_", "handling">>

PAGE_PREFIX ==
    <<"Page", " ", "text", " ", "of", " ">>

\* Runs of characters of a long page, each kept as one token: with them the
\* 15000th character of web_content is the last character of a token.
PAGE_FILL_1 ==
    <<"[4964 characters]", "[5000 characters]", "[5000 characters]">>

PAGE_FILL_2 ==
    <<"[4927 characters]", "[5000 characters]", "[5000 characters]", "[38 characters]">>

(***************************************************************************)
(* The marker lists of the source                                          *)
(***************************************************************************)

\* Pieces of the texts handed to the classifiers.
PHRASE_LOWER ==
    <<"cannot", " ", "find", " ", "relevant", " ", "information">>

PHRASE_UPPER ==
    <<"CANNOT", " ", "FIND", " ", "RELEVANT", " ", "INFORMATION">>

PHRASE_MIXED ==
    <<"Cannot", " ", "Find", " ", "Relevant", " ", "Information">>

LEAD_SORRY ==
    <<"Sorry", ",", " ", "I", " ">>

LEAD_ERROR ==
    <<"Error", ":", " ">>

LEAD_LONG ==
    <<"A", " ", "stack", " ", "is", " ", "a", " ", "last", "-", "in", ",", " ", "first", "-",
      "out", " ", "collection", ".", " ", "However", ",", " ", "I", " ">>

TRAIL_DOT ==
    <<".">>

TRAIL_LONG ==
    <<" ", "in", " ", "the", " ", "provided", " ", "documents", " ", "of", " ", "this", " ",
      "course", ".">>

TRAIL_CONTENT ==
    <<" ", "content", ".">>

ERROR_UPPER ==
    <<"Error">>

ERROR_LOWER ==
    <<"error">>

GENERATING_RESPONSE ==
    <<"generating", " ", "response">>

FROM_LLM_UPPER ==
    <<"from", " ", "LLM">>

FROM_LLM_LOWER ==
    <<"from", " ", "llm">>

MARK_TEXT ==
    <<"text">>

MARK_BASED_ON ==
    <<"based", " ", "on">>

MARK_CONTEXT ==
    <<"context">>

MARK_CONTENT ==
    <<"content">>

MARK_NONE ==
    <<"stack">>

PAD ==
    <<".">>

THINK_OPEN ==
    <<"<think>">>

THINK_CLOSE ==
    <<"</think>">>

THINK_PRE ==
    <<"Intro", ".", " ">>

THINK_NOTES ==
    <<"internal", " ", "notes">>

THINK_NOTES_LINES ==
    <<"internal", "\n", "notes">>

THINK_MORE ==
    <<"<think>", "more", "</think>">>

THINK_POST ==
    <<"Done", ".">>

SPACE ==
    <<" ">>

\* Values of the requests of the chat API (views.py, test.py).
SUBJECT_MATH ==
    <<"Math">>

SUBJECT_PHYSICS ==
    <<"Physics">>

SUBJECT_UNKNOWN ==
    <<"Astrology">>

NAME_DEFAULT ==
    <<"New", " ", "Chat">>

NAME_RENAMED ==
    <<"Exam", " ", "revision">>

\* A run of 5000 characters of an answer, kept as one token.
PARAGRAPH ==
    <<"[5000 characters]">>

SORRY_INTERNAL_PREFIX ==
    <<"Sorry", ",", " ", "an", " ", "internal", " ", "error", " ", "occurred", ":", " ">>

TRUNCATED_SUFFIX ==
    <<" ", ".", ".", ".", " ", "[", "truncated", "]">>

VALUE_ERROR ==
    <<"ValueError">>

RUNTIME_ERROR ==
    <<"RuntimeError">>

\* agent.py:145
rag_non_answer_phrases ==
    { <<"cannot", " ", "find", " ", "relevant", " ", "information">>,
      <<"context", " ", "doesn't", " ", "contain">>,
      <<"context", " ", "does", " ", "not", " ", "contain">>,
      <<"based", " ", "on", " ", "the", " ", "context", " ", "provided">>,
      <<"based", " ", "on", " ", "the", " ", "text", " ", "provided">>,
      <<"information", " ", "provided", " ", "does", " ", "not">>,
      <<"i", " ", "cannot", " ", "answer">> }

\* agent.py:265
web_non_answer_phrases ==
    { <<"cannot", " ", "find", " ", "relevant", " ", "information">>,
      <<"answer", " ", "is", " ", "not", " ", "found">>,
      <<"content", " ", "does", " ", "not", " ", "provide">>,
      <<"based", " ", "on", " ", "the", " ", "provided", " ", "content">>,
      <<"information", " ", "given", " ", "does", " ", "not">>,
      <<"i", " ", "cannot", " ", "answer">>,
      <<"provided", " ", "text", " ", "does", " ", "not", " ", "contain">> }

\* agent.py:289
rag_unavailable_msgs ==
    { <<"please", " ", "create">>,
      <<"error", " ", "initializing">>,
      <<"cannot", " ", "get", " ", "rag">>,
      <<"qa", " ", "chain", " ", "for">>,
      <<"failed", " ", "to", " ", "load">>,
      <<"unexpected", " ", "response", " ", "format">>,
      <<"an", " ", "error", " ", "occurred">>,
      <<"do", " ", "not", " ", "seem", " ", "to", " ", "contain">>,
      <<"failed", "/", "returned", " ", "none">> }

\* agent.py:290
llm_unavailable_msgs ==
    { <<"llm", " ", "returned", " ", "an", " ", "empty">>,
      <<"an", " ", "error", " ", "occurred">>,
      <<"failed", "/", "returned", " ", "none">> }

\* agent.py:291
web_unavailable_msgs ==
    { <<"web", " ", "search", " ", "failed">>,
      <<"could", " ", "not", " ", "find", " ", "relevant", " ", "websites">>,
      <<"failed", " ", "to", " ", "scrape", " ", "content">>,
      <<"could", " ", "not", " ", "extract", " ", "meaningful", " ", "content">>,
      <<"could", " ", "not", " ", "find", " ", "a", " ", "specific", " ", "answer">>,
      <<"error", " ", "synthesizing", " ", "answer">>,
      <<"no", " ", "websites", " ", "provided">>,
      <<"failed", "/", "returned", " ", "none">> }

(***************************************************************************)
(* Python values.  A value is a record of its type t and its content v:    *)
(* the tokens of a str, the message of an exception, the content of a chat *)
(* message, the "result" entry of a chain response.                        *)
(***************************************************************************)

Str(s) == [t |-> "str", v |-> s]

None == [t |-> "NoneType", v |-> << >>]

\* An exception object of class cls whose str() is msg.
Exc(cls, msg) == [t |-> cls, v |-> msg]

\* The message object a chat-model call returns; v is its .content.
Message(content) == [t |-> "AIMessage", v |-> content]

\* The mapping a RetrievalQA call returns; v is its "result" entry.
Response(result) == [t |-> "dict", v |-> result]

\* A chain response that is no mapping with a "result" entry.
BadResponse == [t |-> "no_result", v |-> << >>]

\* isinstance(x, str)
IsStr(x) == x.t = "str"

\* isinstance(x, Exception)
IsException(x) == x.t \in {"Exception", "NotImplementedError"}

\* The exception is caught by "except NotImplementedError".
IsNotImplemented(x) == x.t = "NotImplementedError"

\* bool(x)
Truthy(x) ==
    CASE x.t = "str" -> x.v # << >>
      [] x.t = "NoneType" -> FALSE
      [] OTHER -> TRUE

\* str(x), as an f-string formats x.
Format(x) == IF x.t = "NoneType" THEN <<"None">> ELSE x.v

(***************************************************************************)
(* The outcomes of the external collaborators                              *)
(***************************************************************************)

\* The largest number of hits a search returns in the model.
MaxUrls == 2

UrlPool == <<URL_1, URL_2, URL_3, URL_4>>

\* The question each call frame is entered with.
QuestionsOf(c) == IF c = "c1" THEN {QUESTION_1} ELSE {QUESTION_2}

NotImplementedError == Exc("NotImplementedError", << >>)

ConnectionError == Exc("Exception", EXC_CONNECTION)

\* google_search: the hits in rank order, a hit whose URL carries the word
\* "Error", the one-element error lists of lines 36 and 58, or no hit.
SearchLists ==
    {SubSeq(UrlPool, 1, n) : n \in 1..MaxUrls}
      \cup {<<URL_1, URL_ERROR_PAGE>>}
      \cup {<<SEARCH_NO_CREDENTIALS>>, <<SEARCH_REQUEST_FAILED_PREFIX \o EXC_TIMEOUT>>}
      \cup {<< >>}

\* qa_chain.ainvoke / qa_chain.invoke
ChainOutcomes ==
    {Response(x) : x \in {TEXT_STACK, TEXT_NO_INFO, TEXT_HEDGE, TEXT_PADDED, << >>}}
      \cup {BadResponse, NotImplementedError, ConnectionError}

\* llm.ainvoke / llm.invoke with the baseline prompt
BaselineOutcomes ==
    {Message(x) : x \in {TEXT_STACK, << >>}} \cup {NotImplementedError, ConnectionError}

\* scrape_url through the executor: the text of a short page, of a page
\* longer than the budget of line 234 (for the two best-ranked hits), no
\* text, or an exception.
PageText(url) == PAGE_PREFIX \o url

LongPageText(url) ==
    PageText(url) \o (IF url = URL_1 THEN PAGE_FILL_1 ELSE PAGE_FILL_2) \o TEXT_FINAL

ScrapeOutcomes(url) ==
    {Str(PageText(url)), Str(<< >>), ConnectionError}
      \cup (IF url \in {URL_1, URL_2} THEN {Str(LongPageText(url))} ELSE {})

\* ollama generate inside query_llm ("generate"), or the executor call of
\* query_llm itself failing ("executor")
SynthesisOutcomes ==
    {[at |-> "generate", val |-> Str(x)] :
        x \in {TEXT_STACK, TEXT_NOT_FOUND, TEXT_SEE_CONTENT, << >>}}
      \cup {[at |-> "generate", val |-> ConnectionError],
            [at |-> "executor", val |-> ConnectionError]}

\* llm.ainvoke / llm.invoke with the aggregation prompt
AggregationOutcomes ==
    {Message(x) : x \in {TEXT_THINK, TEXT_ONLY_THINK, TEXT_STACK}}
      \cup {NotImplementedError, ConnectionError}

(***************************************************************************)
(* get_rag_answer                                                          *)
(***************************************************************************)

RagHedgeThreshold == 50

\* is_non_answer or is_too_short, lines 145-148
RagIsNonAnswer(result_text) ==
    LET is_non_answer == ContainsAny(Lower(result_text), rag_non_answer_phrases)
        is_too_short ==
            /\ StrLen(result_text) < RagHedgeThreshold
            /\ \/ Contains(Lower(result_text), <<"based", " ", "on">>)
               \/ Contains(Lower(result_text), <<"context">>)
    IN  is_non_answer \/ is_too_short

\* Lines 143-154 (and 161-168): the answer made of a chain response.
RagFromResponse(response, no_answer, bad_format) ==
    IF response.t = "dict"
    THEN LET result_text == Strip(response.v)
         IN  IF RagIsNonAnswer(result_text) THEN Str(no_answer) ELSE Str(result_text)
    ELSE Str(bad_format)

\* RagFallsBackToSync as it would be if every failed call were retried.
RagFallsBackOnAnyError(out) == IsException(out)

\* The handler the outcome of qa_chain.ainvoke selects is the sync fallback.
RagFallsBackToSync(out) == IsNotImplemented(out)

\* RagAfterAinvoke as it would be without the handler of lines 174-177: the
\* exception of qa_chain.ainvoke would leave get_rag_answer.
RagAfterAinvokeUncaught(out) ==
    IF IsException(out) THEN out
    ELSE RagFromResponse(out, RAG_NO_ANSWER, RAG_BAD_FORMAT)

\* Lines 140-154, 174-177: the value returned after qa_chain.ainvoke settled
\* otherwise.
RagAfterAinvoke(out) ==
    IF IsException(out) THEN Str(RAG_ERROR)
    ELSE RagFromResponse(out, RAG_NO_ANSWER, RAG_BAD_FORMAT)

\* Lines 158-172: the value returned after qa_chain.invoke settled.
RagAfterInvoke(out) ==
    IF IsException(out) THEN Str(RAG_ERROR_SYNC)
    ELSE RagFromResponse(out, RAG_NO_ANSWER_SYNC, RAG_BAD_FORMAT_SYNC)

(***************************************************************************)
(* get_llm_answer                                                          *)
(***************************************************************************)

LlmFallsBackToSync(out) == IsNotImplemented(out)

\* Lines 187-189, 200-203
LlmAfterAinvoke(out) ==
    IF IsException(out) THEN Str(LLM_ERROR)
    ELSE IF Truthy(out) THEN Str(out.v) ELSE Str(LLM_EMPTY)

\* Lines 192-199
LlmAfterInvoke(out) ==
    IF IsException(out) THEN Str(LLM_ERROR_SYNC)
    ELSE IF Truthy(out) THEN Str(out.v) ELSE Str(LLM_EMPTY_SYNC)

(***************************************************************************)
(* _process_web_content and query_llm                                      *)
(***************************************************************************)

WebHedgeThreshold == 60

max_length == 15000

\* ScrapeLoop as it would be if only a raised scrape counted as failed, an
\* empty page being added to web_content like any other.
RECURSIVE ScrapeLoopExceptionsOnly(_, _)
ScrapeLoopExceptionsOnly(scrape_results, acc) ==
    IF scrape_results = << >> THEN acc
    ELSE LET result == Head(scrape_results)
         IN  ScrapeLoopExceptionsOnly(Tail(scrape_results),
                 IF IsException(result)
                 THEN [acc EXCEPT !.failed_scrapes = @ + 1]
                 ELSE [acc EXCEPT !.web_content = @ \o result.v \o SCRAPE_SEP,
                                  !.successful_scrapes = @ + 1])

\* Lines 219-226: the loop over the gathered scrape results, in list order.
RECURSIVE ScrapeLoop(_, _)
ScrapeLoop(scrape_results, acc) ==
    IF scrape_results = << >> THEN acc
    ELSE LET result == Head(scrape_results)
         IN  ScrapeLoop(Tail(scrape_results),
                 IF IsException(result) \/ ~Truthy(result)
                 THEN [acc EXCEPT !.failed_scrapes = @ + 1]
                 ELSE [acc EXCEPT !.web_content = @ \o result.v \o SCRAPE_SEP,
                                  !.successful_scrapes = @ + 1])

ScrapeSummary(scrape_results) ==
    ScrapeLoop(scrape_results,
               [web_content |-> << >>, successful_scrapes |-> 0, failed_scrapes |-> 0])

\* Lines 229-232, taken when web_content is empty.
NoContentMessage(c) ==
    IF c.successful_scrapes = 0 /\ c.failed_scrapes > 0 THEN WEB_SCRAPE_FAILED
    ELSE IF c.successful_scrapes = 0 /\ c.failed_scrapes = 0 THEN WEB_NO_SITES
    ELSE WEB_NO_CONTENT

\* TruncatedContent as it would be without the budget of line 234.
WholeContent(web_content) == web_content

\* Lines 234-235
TruncatedContent(web_content) == Prefix(web_content, max_length)

\* web_scraper.py query_llm: what it returns for an outcome of generate.
query_llm(gen) ==
    IF IsException(gen)
    THEN Str(QUERY_LLM_ERROR \o
             (IF Contains(Lower(gen.v), <<"connection", " ", "refused">>)
              THEN QUERY_LLM_OLLAMA_HINT ELSE << >>))
    ELSE IF ~Truthy(gen) THEN Str(QUERY_LLM_EMPTY) ELSE gen

\* web_scraper.py extract_clean_answer
extract_clean_answer(llm_response) == Strip(llm_response)

\* WebFromLlmResponse as it would be if the length test were "<=".
WebFromLlmResponseInclusive(llm_response) ==
    IF IsStr(llm_response) /\ Contains(llm_response.v, <<"Error", ":">>)
    THEN Str(WEB_SYNTH_ERROR)
    ELSE LET clean_answer == extract_clean_answer(llm_response.v)
             low == Lower(clean_answer)
             is_non_answer == ContainsAny(low, web_non_answer_phrases)
             is_error_message ==
                 /\ Contains(low, <<"error">>)
                 /\ Contains(low, <<"llm">>) \/ Contains(low, <<"generating", " ", "response">>)
             is_too_short ==
                 /\ StrLen(clean_answer) <= WebHedgeThreshold
                 /\ Contains(low, <<"based", " ", "on">>) \/ Contains(low, <<"content">>)
         IN  IF is_non_answer \/ is_too_short THEN Str(WEB_NO_SPECIFIC)
             ELSE IF is_error_message THEN Str(WEB_SYNTH_ERROR)
             ELSE Str(clean_answer)

\* Lines 257-277: the answer made of what query_llm returned.
WebFromLlmResponse(llm_response) ==
    IF IsStr(llm_response) /\ Contains(llm_response.v, <<"Error", ":">>)
    THEN Str(WEB_SYNTH_ERROR)
    ELSE LET clean_answer == extract_clean_answer(llm_response.v)
             low == Lower(clean_answer)
             is_non_answer == ContainsAny(low, web_non_answer_phrases)
             is_error_message ==
                 /\ Contains(low, <<"error">>)
                 /\ Contains(low, <<"llm">>) \/ Contains(low, <<"generating", " ", "response">>)
             is_too_short ==
                 /\ StrLen(clean_answer) < WebHedgeThreshold
                 /\ Contains(low, <<"based", " ", "on">>) \/ Contains(low, <<"content">>)
         IN  IF is_non_answer \/ is_too_short THEN Str(WEB_NO_SPECIFIC)
             ELSE IF is_error_message THEN Str(WEB_SYNTH_ERROR)
             ELSE Str(clean_answer)

\* WebAfterSynthesis as it would be if every failure of the synthesis were
\* reported as a missing answer.
WebAfterSynthesisAsMissing(out) ==
    IF out.at = "executor" THEN Str(WEB_NO_SPECIFIC)
    ELSE LET answer == WebFromLlmResponse(query_llm(out.val))
         IN  IF answer = Str(WEB_SYNTH_ERROR) THEN Str(WEB_NO_SPECIFIC) ELSE answer

\* Lines 249-282: the value returned once the executor call of query_llm settled.
WebAfterSynthesis(out) ==
    IF out.at = "executor" THEN Str(WEB_SYNTH_ERROR)
    ELSE WebFromLlmResponse(query_llm(out.val))

(***************************************************************************)
(* aggregate_answers                                                       *)
(***************************************************************************)

\* Lines 293-295
RagIsAvailable(rag_answer) ==
    IsStr(rag_answer) /\ Truthy(rag_answer)
        /\ ~ContainsAny(Lower(rag_answer.v), rag_unavailable_msgs)

LlmIsAvailable(llm_answer) ==
    IsStr(llm_answer) /\ Truthy(llm_answer)
        /\ ~ContainsAny(Lower(llm_answer.v), llm_unavailable_msgs)

WebIsAvailable(web_answer) ==
    IsStr(web_answer) /\ Truthy(web_answer)
        /\ ~ContainsAny(Lower(web_answer.v), web_unavailable_msgs)

\* Lines 297-299
RagInput(rag_answer) == IF RagIsAvailable(rag_answer) THEN rag_answer.v ELSE RAG_PLACEHOLDER

LlmInput(llm_answer) == IF LlmIsAvailable(llm_answer) THEN llm_answer.v ELSE LLM_PLACEHOLDER

WebInput(web_answer) == IF WebIsAvailable(web_answer) THEN web_answer.v ELSE WEB_PLACEHOLDER

\* NoValidAnswers as it would be if it tested the prompt inputs, in which a
\* placeholder has already replaced every unavailable answer.
NoValidAnswersOfInputs(rag_answer, llm_answer, web_answer) ==
    RagInput(rag_answer) = << >> /\ LlmInput(llm_answer) = << >> /\ WebInput(web_answer) = << >>

\* NoValidAnswers as it would be if it tested the answers for being empty
\* and not for being available.
NoValidAnswersByTruthiness(rag_answer, llm_answer, web_answer) ==
    ~Truthy(rag_answer) /\ ~Truthy(llm_answer) /\ ~Truthy(web_answer)

\* Line 301: the aggregation is skipped.
NoValidAnswers(rag_answer, llm_answer, web_answer) ==
    ~RagIsAvailable(rag_answer) /\ ~LlmIsAvailable(llm_answer) /\ ~WebIsAvailable(web_answer)

\* Lines 303-305
FailureDetails(rag_answer, llm_answer, web_answer) ==
    SORRY_HEAD \o DOCS_LABEL \o Format(rag_answer) \o NEWLINE
               \o LLM_LABEL \o Format(llm_answer) \o NEWLINE
               \o WEB_LABEL \o Format(web_answer)

\* FirstClose as it would be if the pattern were greedy ("<think>.*</think>"):
\* the index of the last "</think>" of s, 0 when there is none.
LastClose(s) ==
    IF \E j \in DOMAIN s : s[j] = "</think>"
    THEN CHOOSE j \in DOMAIN s : s[j] = "</think>" /\ \A k \in (j + 1)..Len(s) : s[k] # "</think>"
    ELSE 0

\* The index of the first "</think>" of s, 0 when there is none.
FirstClose(s) ==
    IF \E j \in DOMAIN s : s[j] = "</think>"
    THEN CHOOSE j \in DOMAIN s : s[j] = "</think>" /\ \A k \in 1..(j - 1) : s[k] # "</think>"
    ELSE 0

\* re.sub(r"<think>.*?</think>\s*", "", text, flags=re.DOTALL), line 320
RECURSIVE RemoveThink(_)
RemoveThink(s) ==
    LET opens == {i \in DOMAIN s : s[i] = "<think>" /\ FirstClose(SubSeq(s, i + 1, Len(s))) > 0}
    IN  IF opens = {} THEN s
        ELSE LET i == CHOOSE x \in opens : \A y \in opens : x <= y
                 j == i + FirstClose(SubSeq(s, i + 1, Len(s)))
             IN  SubSeq(s, 1, i - 1) \o RemoveThink(LStrip(SubSeq(s, j + 1, Len(s))))

\* Lines 317-321
clean_llm_output(text) == Strip(RemoveThink(text))

\* Lines 326-328 (and 335-337)
AggFromResponse(final_response, empty_message) ==
    LET raw_content == IF Truthy(final_response) THEN final_response.v ELSE << >>
        cleaned_content == clean_llm_output(raw_content)
    IN  IF cleaned_content # << >> THEN cleaned_content ELSE empty_message

\* AggFallback as it would be with the baseline model preferred to the web.
AggFallbackLlmBeforeWeb(rag_answer, llm_answer, web_answer, no_fallback) ==
    IF RagIsAvailable(rag_answer) THEN AGG_FAILED_DOCS \o RagInput(rag_answer)
    ELSE IF LlmIsAvailable(llm_answer) THEN AGG_FAILED_LLM \o LlmInput(llm_answer)
    ELSE IF WebIsAvailable(web_answer) THEN AGG_FAILED_WEB \o WebInput(web_answer)
    ELSE no_fallback

\* Lines 350-353 (and 342-345): the fallback after a failed aggregation.
AggFallback(rag_answer, llm_answer, web_answer, no_fallback) ==
    IF RagIsAvailable(rag_answer) THEN AGG_FAILED_DOCS \o RagInput(rag_answer)
    ELSE IF WebIsAvailable(web_answer) THEN AGG_FAILED_WEB \o WebInput(web_answer)
    ELSE IF LlmIsAvailable(llm_answer) THEN AGG_FAILED_LLM \o LlmInput(llm_answer)
    ELSE no_fallback

\* AggFallsBackToSync as it would be if every failed call were retried.
AggFallsBackOnAnyError(out) == IsException(out)

\* The handler the outcome of the aggregation's llm.ainvoke selects is the
\* sync fallback.
AggFallsBackToSync(out) == IsNotImplemented(out)

\* Lines 324-328, 346-353
AggAfterAinvoke(out, rag_answer, llm_answer, web_answer) ==
    IF IsException(out) THEN AggFallback(rag_answer, llm_answer, web_answer, AGG_NO_FALLBACK)
    ELSE AggFromResponse(out, AGG_EMPTY)

\* Lines 332-345
AggAfterInvoke(out, rag_answer, llm_answer, web_answer) ==
    IF IsException(out)
    THEN AggFallback(rag_answer, llm_answer, web_answer, AGG_NO_FALLBACK_SYNC)
    ELSE AggFromResponse(out, AGG_EMPTY_SYNC)

(***************************************************************************)
(* get_comprehensive_answer: the pure steps                                *)
(***************************************************************************)

Sources == {"rag", "llm", "web"}

\* A scrape, or a task result, that has not settled yet.
Pending == [t |-> "pending", v |-> << >>]

\* Line 359
NewBundle ==
    [rag |-> None, llm |-> None, web |-> None, final |-> Str(PROCESSING), sources |-> << >>]

\* The frame of one call of get_comprehensive_answer before it is entered.
\*   pc          SEARCHING, FETCHING, DONE: the phase the call is in
\*   outcome     none, returned, raised: how the call ended
\*   task        the three awaitables handed to asyncio.gather; st is the
\*               await a task is suspended at, out what it returned or raised
\*   agg         the frame of aggregate_answers
\*   calls       the number of calls made to each collaborator
\*   seen        the type of what an awaited completion call produced
\*   phases      the phases entered so far, in order
NoCall ==
    [pc |-> "idle", outcome |-> "none", question |-> << >>, results |-> NewBundle,
     web_urls |-> << >>, initial_web_error |-> None, search_result |-> Pending,
     should_run_web_task |-> FALSE,
     task |-> [k \in Sources |-> [st |-> "none", out |-> Pending, faulted |-> FALSE]],
     scrape_results |-> << >>,
     web_prompt |-> [content |-> << >>, question |-> << >>],
     agg |-> [st |-> "none", rag_answer |-> None, llm_answer |-> None, web_answer |-> None],
     calls |-> [google_search |-> 0, get_retriever |-> 0, chain_ainvoke |-> 0,
                chain_invoke |-> 0, llm_ainvoke |-> 0, llm_invoke |-> 0, scrape_url |-> 0,
                query_llm |-> 0, agg_ainvoke |-> 0, agg_invoke |-> 0],
     seen |-> [chain_ainvoke |-> "none", llm_ainvoke |-> "none", agg_ainvoke |-> "none",
               agg_invoke |-> "none"],
     phases |-> << >>]

\* Lines 358-366: the call is entered and google_search handed to the executor.
Entered(question) ==
    [NoCall EXCEPT !.pc = "SEARCHING", !.question = question,
                   !.phases = <<"SEARCHING">>, !.calls.google_search = 1]

\* Line 368: any("Error" in str(s) or "Missing" in str(s) for s in web_urls)
HasErrorMarker(web_urls) ==
    \E i \in DOMAIN web_urls :
        Contains(web_urls[i], <<"Error">>) \/ Contains(web_urls[i], <<"Missing">>)

\* SearchReturned as it would be if only the best-ranked hit were kept as
\* a source.
SearchReturnedTopHit(s, web_urls) ==
    LET t == [s EXCEPT !.web_urls = web_urls,
                       !.search_result = [t |-> "list", v |-> web_urls]]
    IN  IF web_urls # << >> /\ ~HasErrorMarker(web_urls)
        THEN [t EXCEPT !.results.sources = <<web_urls[1]>>]
        ELSE IF web_urls # << >>
        THEN LET initial_web_error == Str(WEB_SEARCH_FAILED_PREFIX \o web_urls[1])
             IN  [t EXCEPT !.initial_web_error = initial_web_error,
                           !.results.web = initial_web_error,
                           !.results.sources = <<SRC_SEARCH_FAILED>>]
        ELSE LET initial_web_error == Str(WEB_NO_WEBSITES)
             IN  [t EXCEPT !.initial_web_error = initial_web_error,
                           !.results.web = initial_web_error,
                           !.results.sources = <<SRC_NO_WEBSITES>>]

\* Lines 366-377: google_search returned web_urls.
SearchReturned(s, web_urls) ==
    LET t == [s EXCEPT !.web_urls = web_urls,
                       !.search_result = [t |-> "list", v |-> web_urls]]
    IN  IF web_urls # << >> /\ ~HasErrorMarker(web_urls)
        THEN [t EXCEPT !.results.sources = web_urls]
        ELSE IF web_urls # << >>
        THEN LET initial_web_error == Str(WEB_SEARCH_FAILED_PREFIX \o web_urls[1])
             IN  [t EXCEPT !.initial_web_error = initial_web_error,
                           !.results.web = initial_web_error,
                           !.results.sources = <<SRC_SEARCH_FAILED>>]
        ELSE LET initial_web_error == Str(WEB_NO_WEBSITES)
             IN  [t EXCEPT !.initial_web_error = initial_web_error,
                           !.results.web = initial_web_error,
                           !.results.sources = <<SRC_NO_WEBSITES>>]

\* Lines 378-383: the executor call of google_search raised search_e.
SearchRaised(s, search_e) ==
    [s EXCEPT !.search_result = search_e,
              !.initial_web_error = Str(WEB_SEARCH_ERROR),
              !.results.web = Str(WEB_SEARCH_ERROR),
              !.results.sources = <<SRC_SEARCH_ERROR>>]

\* ShouldRunWebTask as it would be without the test of initial_web_error.
ShouldRunWebTaskIgnoringError(web_urls, initial_web_error) == web_urls # << >>

\* Line 388
ShouldRunWebTask(web_urls, initial_web_error) ==
    web_urls # << >> /\ ~Truthy(initial_web_error)

\* LaunchTasks as it would be if a failed search skipped the two other
\* fetchers as well.
LaunchTasksUnlessSearchFailed(s) ==
    [s EXCEPT !.should_run_web_task = ShouldRunWebTask(s.web_urls, s.initial_web_error),
              !.task = IF Truthy(s.initial_web_error) THEN @
                       ELSE [k \in Sources |->
                                [st |-> "created", out |-> Pending, faulted |-> FALSE]],
              !.pc = "FETCHING",
              !.phases = Append(@, "FETCHING")]

\* Lines 385-396: the three awaitables are made and handed to asyncio.gather.
LaunchTasks(s) ==
    [s EXCEPT !.should_run_web_task = ShouldRunWebTask(s.web_urls, s.initial_web_error),
              !.task = [k \in Sources |-> [st |-> "created", out |-> Pending, faulted |-> FALSE]],
              !.pc = "FETCHING",
              !.phases = Append(@, "FETCHING")]

\* Settle as it would be if a fetcher task stored its result in the bundle
\* itself.
SettleWritingBundle(s, k, out) ==
    [s EXCEPT !.task[k].st = "settled", !.task[k].out = out, !.results[k] = out]

\* Task k of s ends with out (a returned value, or the exception it raised).
Settle(s, k, out) == [s EXCEPT !.task[k].st = "settled", !.task[k].out = out]

\* _process_web_content ends with out: its locals go with its frame.
WebSettle(s, out) ==
    Settle([s EXCEPT !.scrape_results = << >>,
                     !.web_prompt = [content |-> << >>, question |-> << >>]],
           "web", out)

\* Every task has run up to its first await.
AllStarted(s) == \A k \in Sources : s.task[k].st \notin {"none", "created"}

\* AllSettled as it would be if the barrier waited for the first task only.
FirstSettled(s) == \E k \in Sources : s.task[k].st = "settled"

\* AllSettled as it would be if the barrier waited for the web fetcher
\* itself, which is not launched after a failed search.
AllSettledWebLaunched(s) ==
    (\A k \in Sources : s.task[k].st = "settled") /\ s.should_run_web_task

\* asyncio.gather(*tasks_to_run, return_exceptions=True) is done, line 396.
AllSettled(s) == \A k \in Sources : s.task[k].st = "settled"

\* RecordTaskResults as it would be if gather were called without
\* return_exceptions=True: the first exception would leave gather and
\* lines 409-414 would fill every field that is still unset.
RecordTaskResultsFailFast(s) ==
    IF \E k \in Sources : IsException(s.task[k].out)
    THEN [s EXCEPT !.results.rag = IF Truthy(@) THEN @ ELSE Str(GATHER_ERROR),
                   !.results.llm = IF Truthy(@) THEN @ ELSE Str(GATHER_ERROR),
                   !.results.web = IF Truthy(@) THEN @ ELSE Str(GATHER_ERROR)]
    ELSE [s EXCEPT !.results.rag = s.task["rag"].out,
                   !.results.llm = s.task["llm"].out,
                   !.results.web = IF Truthy(s.initial_web_error) THEN @ ELSE s.task["web"].out]

\* Lines 398-401: the gathered task_results are stored in the bundle.
RecordTaskResults(s) ==
    LET rag == s.task["rag"].out
        llm == s.task["llm"].out
        web == s.task["web"].out
    IN  [s EXCEPT
          !.results.rag =
              IF ~IsException(rag) THEN rag ELSE Str(RAG_TASK_ERROR_PREFIX \o Format(rag)),
          !.results.llm =
              IF ~IsException(llm) THEN llm ELSE Str(LLM_TASK_ERROR_PREFIX \o Format(llm)),
          !.results.web =
              IF Truthy(s.initial_web_error) THEN @
              ELSE IF ~IsException(web) THEN web
              ELSE Str(WEB_TASK_ERROR_PREFIX \o Format(web))]

\* Lines 416-418
AsString(x, otherwise) == IF IsStr(x) THEN x ELSE Str(otherwise)

\* Lines 421, 427-431: the final answer is stored and the bundle returned.
Return(s, final) ==
    [s EXCEPT !.results.final = IF Truthy(final) THEN final ELSE Str(FINAL_EMPTY),
              !.agg.st = "done",
              !.outcome = "returned"]

\* EnterAggregation as it would be if the prompt inputs of lines 297-299
\* were written back to the bundle.
EnterAggregationStoringInputs(s) ==
    LET rag_res == AsString(s.results.rag, RAG_NOT_STRING)
        llm_res == AsString(s.results.llm, LLM_NOT_STRING)
        web_res == AsString(s.results.web, WEB_NOT_STRING)
        t == [s EXCEPT !.pc = "DONE", !.phases = Append(@, "DONE"),
                       !.agg.rag_answer = rag_res, !.agg.llm_answer = llm_res,
                       !.agg.web_answer = web_res,
                       !.results.rag = Str(RagInput(rag_res)),
                       !.results.llm = Str(LlmInput(llm_res)),
                       !.results.web = Str(WebInput(web_res))]
    IN  IF NoValidAnswers(rag_res, llm_res, web_res)
        THEN Return(t, Str(FailureDetails(rag_res, llm_res, web_res)))
        ELSE [t EXCEPT !.agg.st = "ainvoke", !.calls.agg_ainvoke = @ + 1]

\* Lines 416-421 and aggregate_answers up to its first await (lines 286-324):
\* without a valid answer it returns at once, otherwise it awaits llm.ainvoke.
EnterAggregation(s) ==
    LET rag_res == AsString(s.results.rag, RAG_NOT_STRING)
        llm_res == AsString(s.results.llm, LLM_NOT_STRING)
        web_res == AsString(s.results.web, WEB_NOT_STRING)
        t == [s EXCEPT !.pc = "DONE", !.phases = Append(@, "DONE"),
                       !.agg.rag_answer = rag_res, !.agg.llm_answer = llm_res,
                       !.agg.web_answer = web_res]
    IN  IF NoValidAnswers(rag_res, llm_res, web_res)
        THEN Return(t, Str(FailureDetails(rag_res, llm_res, web_res)))
        ELSE [t EXCEPT !.agg.st = "ainvoke", !.calls.agg_ainvoke = @ + 1]

(***************************************************************************)
(* The state                                                               *)
(***************************************************************************)

\* The calls of get_comprehensive_answer that may be in progress on the agent.
Calls == {"c1", "c2"}

\* The largest number of chat sessions stored at a time.
MaxChats == 1

\* The primary keys a chat session is stored under (uuid4 in models.py).
ChatIds == 1..MaxChats

\* The primary keys a request may name: the last one is the key of no
\* stored session.
RequestChatIds == 1..(MaxChats + 1)

\* The largest number of messages stored in a chat session.
MaxMessages == 2

\* No row of ChatSession under a primary key.
NoSession == [name |-> << >>, subject |-> << >>, stored |-> FALSE]

\* Nothing has been classified yet.
NoProbe ==
    [fn |-> "none", sync |-> FALSE, kind |-> "none", text |-> << >>, part |-> << >>,
     out |-> None]

\* The request threads that run get_rag_answer on the agent.
Threads == {"t1", "t2"}

\* The largest number of calls of create_knowledge_base.
MaxUploads == 2

\* No call of create_knowledge_base is in progress.
\*   pc        idle, executor (line 87), line93, line102
\*   ended     the number of calls that have returned or raised
\*   outcome   how the last call ended: none, returned, raised
NoUpload == [pc |-> "idle", ended |-> 0, outcome |-> "none"]

\* get_rag_answer has not been called on a thread.
\*   pc          idle, line112, line117, line137, line140, ainvoke, line160, done
\*   entered_at  the number of uploads that had ended when it was called
\*   retriever   the value of index get_retriever made the retriever at
\*   used        the calls made to a chain: the value of built_from of each
\*   out         the value returned
NoRagCall ==
    [pc |-> "idle", entered_at |-> 0, retriever |-> 0, used |-> << >>, out |-> Pending]

\* The largest number of chats the app creates.
MaxCreated == 6

\* app.py lines 56-66: create_new_chat on the session state s.  chats is the
\* dict in its insertion order; the key of the new chat is a new uuid4, here
\* the number of chats created so far, and its name "Chat n" is kept as n.
create_new_chat(s, make_current) ==
    LET new_chat_id == s.created + 1
        new_chat_name == Len(s.chats) + 1
    IN  [s EXCEPT !.chats = Append(@, [id |-> new_chat_id, name |-> new_chat_name]),
                  !.current_chat_id = IF make_current THEN new_chat_id ELSE @,
                  !.created = new_chat_id]

\* app.py lines 34-37: the session state after initialize_session_state_app:
\* chats is created empty and, current_chat_id being absent (0), a first
\* chat is created and made current.
initialize_session_state_app ==
    create_new_chat([chats |-> << >>, current_chat_id |-> 0, created |-> 0], TRUE)

\* The keys of the chats of the session state s.
ChatKeys(s) == {s.chats[i].id : i \in DOMAIN s.chats}

\* del st.session_state.chats[chat_id], line 86: the other chats keep their order.
WithoutChat(chats, chat_id) == SelectSeq(chats, LAMBDA chat : chat.id # chat_id)

\* delete_chat as it would be without reversed() at line 93: the oldest
\* remaining chat would be selected.
delete_chat_selecting_first(s, chat_id) ==
    IF chat_id \in ChatKeys(s)
    THEN LET t == [s EXCEPT !.chats = WithoutChat(@, chat_id)]
         IN  IF chat_id = s.current_chat_id
             THEN IF t.chats # << >>
                  THEN [t EXCEPT !.current_chat_id = t.chats[1].id]
                  ELSE create_new_chat(t, TRUE)
             ELSE t
    ELSE s

\* app.py lines 83-100: delete_chat on the session state s.
delete_chat(s, chat_id) ==
    IF chat_id \in ChatKeys(s)
    THEN LET t == [s EXCEPT !.chats = WithoutChat(@, chat_id)]
         IN  IF chat_id = s.current_chat_id
             THEN IF t.chats # << >>
                  THEN [t EXCEPT !.current_chat_id = t.chats[Len(t.chats)].id]
                  ELSE create_new_chat(t, TRUE)
             ELSE t
    ELSE s

\* No request has been answered yet.
NoRequest ==
    [op |-> "none", status |-> 0, chat_id |-> 0, name |-> None, subject |-> None,
     question |-> None, agent |-> None]

VARIABLES
    qa_chain,       \* self.qa_chain of the agent: TRUE when a chain is cached
    live,           \* the calls that are ever made
    req,            \* the frame of each call
    probe,          \* the last text handed to a classifier, and its result
    chat_sessions,  \* the rows of ChatSession, by primary key
    chat_messages,  \* the rows of ChatMessage of each session, by timestamp
    http,           \* the last request of the chat API and its response
    persist_dir,    \* the persistence directory of the subject exists
    index,          \* the number of times the vector store was written
    built_from,     \* the value of index the cached chain's retriever was made at
    vector_store,   \* self.vector_store: 0 for None, else the index it was made as
    upload,         \* the frame of the call of create_knowledge_base
    rag_call,       \* the frame of get_rag_answer on each request thread
    session_state   \* st.session_state of the Streamlit app

\* The variables of the knowledge base and of the threads that use it.
kb_vars == <<persist_dir, index, built_from, vector_store, upload, rag_call>>

vars ==
    <<qa_chain, live, req, probe, chat_sessions, chat_messages, http, kb_vars, session_state>>

\* The variables the steps of the agent leave alone.
view_vars == <<probe, chat_sessions, chat_messages, http, kb_vars, session_state>>

\* The variables of the agent.
agent_vars == <<qa_chain, live, req>>

\* Line 33: a new agent holds no chain; the database is empty.
Init ==
    /\ qa_chain = FALSE
    /\ live = {"c1"}
    /\ req = [c \in Calls |-> NoCall]
    /\ probe = NoProbe
    /\ chat_sessions = [id \in ChatIds |-> NoSession]
    /\ chat_messages = [id \in ChatIds |-> << >>]
    /\ http = NoRequest
    /\ persist_dir = FALSE
    /\ index = 0
    /\ built_from = 0
    /\ vector_store = 0
    /\ upload = NoUpload
    /\ rag_call = [t \in Threads |-> NoRagCall]
    /\ session_state = initialize_session_state_app

\* Both frames are in use: two requests are served at a time.
Concurrent == live = Calls

\* Line 33 with both frames in use.
ConcurrentInit ==
    /\ qa_chain = FALSE
    /\ live = Calls
    /\ req = [c \in Calls |-> NoCall]
    /\ probe = NoProbe
    /\ chat_sessions = [id \in ChatIds |-> NoSession]
    /\ chat_messages = [id \in ChatIds |-> << >>]
    /\ http = NoRequest
    /\ persist_dir = FALSE
    /\ index = 0
    /\ built_from = 0
    /\ vector_store = 0
    /\ upload = NoUpload
    /\ rag_call = [t \in Threads |-> NoRagCall]
    /\ session_state = initialize_session_state_app

\* What the collaborators answer while two requests are served at a time:
\* each call is answered on what it asked, a hit and a text on the stack for
\* the first question and on the queue for the second, or not at all; the
\* chain and the baseline completion have their awaitable calls.
AnswerTo(question) == IF question = QUESTION_1 THEN TEXT_STACK ELSE TEXT_QUEUE

HitsFor(question) == IF question = QUESTION_1 THEN <<URL_1>> ELSE <<URL_3>>

\* google_search(question), line 364.
SearchListsFor(question) == IF Concurrent THEN {HitsFor(question)} ELSE SearchLists

\* qa_chain.ainvoke and qa_chain.invoke of {"query": question}, lines 140 and 160.
ChainOutcomesFor(question) ==
    IF Concurrent THEN {Response(AnswerTo(question)), ConnectionError} ELSE ChainOutcomes

\* llm.ainvoke and llm.invoke of the baseline prompt on question, lines 187 and 193.
BaselineOutcomesFor(question) ==
    IF Concurrent THEN {Message(AnswerTo(question)), ConnectionError}
    ELSE BaselineOutcomes

\* scrape_url(url), line 214.
ScrapeOutcomesFor(url) == IF Concurrent THEN {Str(PageText(url))} ELSE ScrapeOutcomes(url)

\* query_llm of the synthesis prompt on question, line 253.
SynthesisOutcomesFor(question) ==
    IF Concurrent THEN {[at |-> "generate", val |-> Str(AnswerTo(question))]}
    ELSE SynthesisOutcomes

\* llm.ainvoke and llm.invoke of the aggregation prompt on question, lines 324 and 334.
AggregationOutcomesFor(question) ==
    IF Concurrent THEN {Message(AnswerTo(question)), NotImplementedError, ConnectionError}
    ELSE AggregationOutcomes

(***************************************************************************)
(* The steps of get_comprehensive_answer                                   *)
(***************************************************************************)

\* A call is made, once the frame's previous call has ended.
\* Call as it would be if the bundle of the previous call were reused.
CallKeepingBundle(c) ==
    /\ c \in live
    /\ req[c].pc = "idle" \/ req[c].outcome # "none"
    /\ \E question \in QuestionsOf(c) :
          req' = [req EXCEPT ![c] = [Entered(question) EXCEPT !.results = req[c].results]]
    /\ UNCHANGED <<qa_chain, live, view_vars>>

Call(c) ==
    /\ c \in live
    /\ req[c].pc = "idle" \/ req[c].outcome # "none"
    /\ \E question \in QuestionsOf(c) : req' = [req EXCEPT ![c] = Entered(question)]
    /\ UNCHANGED <<qa_chain, live, view_vars>>

\* google_search returns; the handler runs on to the await of gather.
SearchReturns(c) ==
    /\ req[c].pc = "SEARCHING" /\ req[c].outcome = "none"
    /\ \E web_urls \in SearchListsFor(req[c].question) :
          req' = [req EXCEPT ![c] = LaunchTasks(SearchReturned(@, web_urls))]
    /\ UNCHANGED <<qa_chain, live, view_vars>>

\* SearchRaises as it would be without the try of lines 363-383: the
\* exception would leave get_comprehensive_answer.
SearchRaisesUncaught(c) ==
    /\ req[c].pc = "SEARCHING" /\ req[c].outcome = "none"
    /\ req' = [req EXCEPT ![c].search_result = ConnectionError, ![c].outcome = "raised"]
    /\ UNCHANGED <<qa_chain, live, view_vars>>

\* The executor call of google_search raises.
SearchRaises(c) ==
    /\ req[c].pc = "SEARCHING" /\ req[c].outcome = "none"
    /\ req' = [req EXCEPT ![c] = LaunchTasks(SearchRaised(@, ConnectionError))]
    /\ UNCHANGED <<qa_chain, live, view_vars>>

\* RagStart as it would be without the test of line 134: a chain that could
\* not be built would be reported by line 179.
RagStartUnchecked(c) ==
    /\ req[c].pc = "FETCHING" /\ req[c].task["rag"].st = "created"
    /\ \E retriever \in (IF qa_chain THEN {TRUE} ELSE BOOLEAN) :
          LET initialized == qa_chain \/ retriever
              s == [req[c] EXCEPT !.calls.get_retriever = IF qa_chain THEN @ ELSE @ + 1]
          IN  /\ qa_chain' = initialized
              /\ req' = [req EXCEPT ![c] =
                    IF qa_chain'
                    THEN [s EXCEPT !.task["rag"].st = "ainvoke", !.calls.chain_ainvoke = @ + 1]
                    ELSE Settle(s, "rag", Str(RAG_NO_CHAIN))]
    /\ UNCHANGED <<live, view_vars>>

\* get_rag_answer runs to its first await: initialize_qa_chain (lines
\* 106-129) and lines 134-140.  get_retriever is consulted only without a
\* cached chain; retriever = FALSE stands for None or a raised exception.
RagStart(c) ==
    /\ req[c].pc = "FETCHING" /\ req[c].task["rag"].st = "created"
    /\ \E retriever \in (IF qa_chain THEN {TRUE} ELSE BOOLEAN) :
          LET initialized == qa_chain \/ retriever
              s == [req[c] EXCEPT !.calls.get_retriever = IF qa_chain THEN @ ELSE @ + 1]
          IN  /\ qa_chain' = initialized
              /\ req' = [req EXCEPT ![c] =
                    IF ~initialized THEN Settle(s, "rag", Str(RAG_INIT_ERROR))
                    ELSE IF qa_chain'
                    THEN [s EXCEPT !.task["rag"].st = "ainvoke", !.calls.chain_ainvoke = @ + 1]
                    ELSE Settle(s, "rag", Str(RAG_NO_CHAIN))]
    /\ UNCHANGED <<live, view_vars>>

\* get_llm_answer runs to its first await, line 187.
LlmStart(c) ==
    /\ req[c].pc = "FETCHING" /\ req[c].task["llm"].st = "created"
    /\ req[c].task["rag"].st # "created"
    /\ req' = [req EXCEPT ![c].task["llm"].st = "ainvoke", ![c].calls.llm_ainvoke = @ + 1]
    /\ UNCHANGED <<qa_chain, live, view_vars>>

\* The third awaitable runs to its first await: _process_web_content hands
\* every URL to the executor (lines 207-217), the placeholder returns
\* results["web"] (line 392).
WebStart(c) ==
    /\ req[c].pc = "FETCHING" /\ req[c].task["web"].st = "created"
    /\ req[c].task["llm"].st # "created"
    /\ LET s == req[c]
       IN  req' = [req EXCEPT ![c] =
               IF s.should_run_web_task
               THEN [s EXCEPT !.task["web"].st = "scraping",
                              !.scrape_results = [i \in DOMAIN s.web_urls |-> Pending],
                              !.calls.scrape_url = Len(s.web_urls)]
               ELSE Settle(s, "web", s.results.web)]
    /\ UNCHANGED <<qa_chain, live, view_vars>>

\* qa_chain.ainvoke settles, lines 140-177.
RagAinvokeSettles(c) ==
    /\ req[c].pc = "FETCHING" /\ req[c].task["rag"].st = "ainvoke" /\ AllStarted(req[c])
    /\ \E out \in ChainOutcomesFor(req[c].question) :
          LET s == [req[c] EXCEPT !.seen.chain_ainvoke = out.t]
          IN  req' = [req EXCEPT ![c] =
                  IF RagFallsBackToSync(out)
                  THEN [s EXCEPT !.task["rag"].st = "invoke", !.calls.chain_invoke = @ + 1]
                  ELSE Settle(s, "rag", RagAfterAinvoke(out))]
    /\ UNCHANGED <<qa_chain, live, view_vars>>

\* qa_chain.invoke, run in the executor, settles, lines 158-172.
RagInvokeSettles(c) ==
    /\ req[c].pc = "FETCHING" /\ req[c].task["rag"].st = "invoke"
    /\ \E out \in ChainOutcomesFor(req[c].question) :
          req' = [req EXCEPT ![c] =
                    Settle(@, "rag", RagAfterInvoke(out))]
    /\ UNCHANGED <<qa_chain, live, view_vars>>

\* llm.ainvoke settles, lines 187-203.
LlmAinvokeSettles(c) ==
    /\ req[c].pc = "FETCHING" /\ req[c].task["llm"].st = "ainvoke" /\ AllStarted(req[c])
    /\ \E out \in BaselineOutcomesFor(req[c].question) :
          LET s == [req[c] EXCEPT !.seen.llm_ainvoke = out.t]
          IN  req' = [req EXCEPT ![c] =
                  IF LlmFallsBackToSync(out)
                  THEN [s EXCEPT !.task["llm"].st = "invoke", !.calls.llm_invoke = @ + 1]
                  ELSE Settle(s, "llm", LlmAfterAinvoke(out))]
    /\ UNCHANGED <<qa_chain, live, view_vars>>

\* llm.invoke, run in the executor, settles, lines 192-199.
LlmInvokeSettles(c) ==
    /\ req[c].pc = "FETCHING" /\ req[c].task["llm"].st = "invoke"
    /\ \E out \in BaselineOutcomesFor(req[c].question) :
          req' = [req EXCEPT ![c] =
                    Settle(@, "llm", LlmAfterInvoke(out))]
    /\ UNCHANGED <<qa_chain, live, view_vars>>

\* One scrape_url call settles, in any order (lines 212-217).
ScrapeSettles(c) ==
    /\ req[c].pc = "FETCHING" /\ req[c].task["web"].st = "scraping" /\ AllStarted(req[c])
    /\ \E i \in DOMAIN req[c].scrape_results :
          /\ req[c].scrape_results[i] = Pending
          /\ \E out \in ScrapeOutcomesFor(req[c].web_urls[i]) :
                req' = [req EXCEPT ![c].scrape_results[i] = out]
    /\ UNCHANGED <<qa_chain, live, view_vars>>

\* The gather of the scrapes is done: lines 219-255.
ScrapesGathered(c) ==
    /\ req[c].pc = "FETCHING" /\ req[c].task["web"].st = "scraping"
    /\ \A i \in DOMAIN req[c].scrape_results : req[c].scrape_results[i] # Pending
    /\ LET summary == ScrapeSummary(req[c].scrape_results)
       IN  req' = [req EXCEPT ![c] =
               IF summary.web_content = << >>
               THEN WebSettle(@, Str(NoContentMessage(summary)))
               ELSE [@ EXCEPT !.task["web"].st = "query_llm",
                              !.calls.query_llm = @ + 1,
                              !.web_prompt = [content |-> TruncatedContent(summary.web_content),
                                              question |-> req[c].question]]]
    /\ UNCHANGED <<qa_chain, live, view_vars>>

\* The executor call of query_llm settles, lines 251-282.
SynthesisSettles(c) ==
    /\ req[c].pc = "FETCHING" /\ req[c].task["web"].st = "query_llm"
    /\ \E out \in SynthesisOutcomesFor(req[c].web_prompt.question) :
          req' = [req EXCEPT ![c] = WebSettle(@, WebAfterSynthesis(out))]
    /\ UNCHANGED <<qa_chain, live, view_vars>>

\* A fetcher raises out of its first await instead of returning (a failing
\* stub in place of the fetcher): gather, called with return_exceptions=True,
\* collects the exception as the task's result (line 396).
TaskRaises(c, k) ==
    /\ req[c].pc = "FETCHING" /\ AllStarted(req[c])
    /\ \/ k \in {"rag", "llm"} /\ req[c].task[k].st = "ainvoke"
       \/ /\ k = "web" /\ req[c].task[k].st = "scraping"
          /\ \A i \in DOMAIN req[c].scrape_results : req[c].scrape_results[i] = Pending
    /\ req' = [req EXCEPT ![c] =
                 LET s == [@ EXCEPT !.task[k].faulted = TRUE]
                 IN  IF k = "web" THEN WebSettle(s, ConnectionError)
                     ELSE Settle(s, k, ConnectionError)]
    /\ UNCHANGED <<qa_chain, live, view_vars>>

\* GatherDone as it would be if the awaitables were kept on the agent, which
\* the calls share, and not in locals of the call: the results recorded are
\* those of either call whose tasks are done.
GatherDoneOnSharedTasks(c) ==
    /\ req[c].pc = "FETCHING" /\ AllSettled(req[c])
    /\ \E d \in live :
          /\ AllSettled(req[d])
          /\ req' = [req EXCEPT ![c] =
                       EnterAggregation(RecordTaskResults([@ EXCEPT !.task = req[d].task]))]
    /\ UNCHANGED <<qa_chain, live, view_vars>>

\* The gather is done: lines 398-421, into aggregate_answers.
GatherDone(c) ==
    /\ req[c].pc = "FETCHING" /\ AllSettled(req[c])
    /\ req' = [req EXCEPT ![c] = EnterAggregation(RecordTaskResults(@))]
    /\ UNCHANGED <<qa_chain, live, view_vars>>

\* llm.ainvoke of the aggregation settles, lines 324-353.
AggAinvokeSettles(c) ==
    /\ req[c].pc = "DONE" /\ req[c].agg.st = "ainvoke"
    /\ \E out \in AggregationOutcomesFor(req[c].question) :
          LET s == [req[c] EXCEPT !.seen.agg_ainvoke = out.t]
          IN  req' = [req EXCEPT ![c] =
                  IF AggFallsBackToSync(out)
                  THEN [s EXCEPT !.agg.st = "invoke", !.calls.agg_invoke = @ + 1]
                  ELSE Return(s, Str(AggAfterAinvoke(out, s.agg.rag_answer,
                                                     s.agg.llm_answer, s.agg.web_answer)))]
    /\ UNCHANGED <<qa_chain, live, view_vars>>

\* llm.invoke of the aggregation, run in the executor, settles, lines 332-345.
AggInvokeSettles(c) ==
    /\ req[c].pc = "DONE" /\ req[c].agg.st = "invoke"
    /\ \E out \in AggregationOutcomesFor(req[c].question) :
          LET s == [req[c] EXCEPT !.seen.agg_invoke = out.t]
          IN  req' = [req EXCEPT ![c] =
                  Return(s, Str(AggAfterInvoke(out, s.agg.rag_answer,
                                               s.agg.llm_answer, s.agg.web_answer)))]
    /\ UNCHANGED <<qa_chain, live, view_vars>>

Next ==
    \E c \in Calls :
        \/ Call(c)
        \/ SearchReturns(c)
        \/ SearchRaises(c)
        \/ RagStart(c)
        \/ LlmStart(c)
        \/ WebStart(c)
        \/ RagAinvokeSettles(c)
        \/ RagInvokeSettles(c)
        \/ LlmAinvokeSettles(c)
        \/ LlmInvokeSettles(c)
        \/ ScrapeSettles(c)
        \/ ScrapesGathered(c)
        \/ SynthesisSettles(c)
        \/ \E k \in Sources : TaskRaises(c, k)
        \/ GatherDone(c)
        \/ AggAinvokeSettles(c)
        \/ AggInvokeSettles(c)

Spec == Init /\ [][Next]_vars

\* Two requests served at a time by the one agent of their subject, the
\* fetchers of each ending by themselves.
ConcurrentNext ==
    \E c \in Calls :
        \/ Call(c)
        \/ SearchReturns(c)
        \/ SearchRaises(c)
        \/ RagStart(c)
        \/ LlmStart(c)
        \/ WebStart(c)
        \/ RagAinvokeSettles(c)
        \/ LlmAinvokeSettles(c)
        \/ ScrapeSettles(c)
        \/ ScrapesGathered(c)
        \/ SynthesisSettles(c)
        \/ GatherDone(c)
        \/ AggAinvokeSettles(c)
        \/ AggInvokeSettles(c)

ConcurrentSpec == ConcurrentInit /\ [][ConcurrentNext]_vars

(***************************************************************************)
(* Scheduling                                                              *)
(***************************************************************************)

\* A step of call c other than its entry: a collaborator's call settling,
\* or the event loop running a task or the handler up to its next await.
Progress(c) ==
    \/ SearchReturns(c)
    \/ SearchRaises(c)
    \/ RagStart(c)
    \/ LlmStart(c)
    \/ WebStart(c)
    \/ RagAinvokeSettles(c)
    \/ RagInvokeSettles(c)
    \/ LlmAinvokeSettles(c)
    \/ LlmInvokeSettles(c)
    \/ ScrapeSettles(c)
    \/ ScrapesGathered(c)
    \/ SynthesisSettles(c)
    \/ GatherDone(c)
    \/ AggAinvokeSettles(c)
    \/ AggInvokeSettles(c)

\* The asyncio event loop runs every ready callback, and every call handed
\* to a collaborator settles: a call that can take a step takes one.
FairSpec == Spec /\ \A c \in Calls : WF_vars(Progress(c))

(***************************************************************************)
(* The classifiers of the fetchers and the cleaning of the aggregator,     *)
(* applied to texts of a bounded family                                    *)
(***************************************************************************)

\* The largest number of padding characters that follow a hedging marker.
MaxPad == 55

RECURSIVE Padding(_)
Padding(k) == IF k = 0 THEN << >> ELSE PAD \o Padding(k - 1)

\* Completion texts around the phrase "cannot find relevant information" in
\* three letter cases; part is the phrase as it is written in the text.
PhraseTexts ==
    {[kind |-> "phrase", text |-> lead \o phrase \o trail, part |-> phrase] :
        lead \in {<< >>, LEAD_SORRY, LEAD_LONG, LEAD_ERROR},
        phrase \in {PHRASE_LOWER, PHRASE_UPPER, PHRASE_MIXED},
        trail \in {<< >>, TRAIL_DOT, TRAIL_LONG}}

\* Completion texts of every length up to MaxPad characters more than their
\* first word; part is that word, a hedging marker or the plain word "stack".
HedgeTexts ==
    {[kind |-> "hedge", text |-> mark \o Padding(k), part |-> mark] :
        mark \in {MARK_BASED_ON, MARK_CONTEXT, MARK_CONTENT, MARK_NONE},
        k \in 0..MaxPad}

\* Completion texts with one or two reasoning blocks; part is the text
\* outside the blocks.
ThinkTexts ==
    {[kind |-> "think",
      text |-> pre \o THINK_OPEN \o notes \o THINK_CLOSE \o gap \o mid \o more \o post,
      part |-> pre \o gap \o mid \o post] :
        pre \in {<< >>, THINK_PRE},
        notes \in {<< >>, THINK_NOTES, THINK_NOTES_LINES},
        gap \in {<< >>, NEWLINE, SPACE},
        mid \in {<< >>, TEXT_FINAL},
        more \in {<< >>, THINK_MORE},
        post \in {<< >>, THINK_POST}}

\* Completion texts that report an error or look like such a report:
\* "error" in two letter cases or another word, followed by "generating
\* response", by "from LLM" in two letter cases or by another word, then a
\* full stop, a long tail or the short tail " content."; and the empty
\* completion.  part is the text without its tail.
ErrorTexts ==
    {[kind |-> "error", text |-> first \o SPACE \o second \o trail,
      part |-> first \o SPACE \o second] :
        first \in {ERROR_UPPER, ERROR_LOWER, MARK_NONE},
        second \in {GENERATING_RESPONSE, FROM_LLM_UPPER, FROM_LLM_LOWER, MARK_TEXT},
        trail \in {TRAIL_DOT, TRAIL_LONG, TRAIL_CONTENT}}
      \cup {[kind |-> "error", text |-> << >>, part |-> << >>]}

\* Each behaviour classifies one text.
\* get_rag_answer receives a chain response with the text x.text, from
\* ainvoke (lines 140-154) or from the sync fallback (lines 158-168).
ClassifyRag ==
    /\ probe = NoProbe
    /\ \E x \in PhraseTexts \cup HedgeTexts : \E sync \in BOOLEAN :
          probe' = [fn |-> "get_rag_answer", sync |-> sync, kind |-> x.kind,
                    text |-> x.text, part |-> x.part,
                    out |-> IF sync THEN RagAfterInvoke(Response(x.text))
                                    ELSE RagAfterAinvoke(Response(x.text))]
    /\ UNCHANGED <<agent_vars, chat_sessions, chat_messages, http, kb_vars, session_state>>

\* _process_web_content receives the text x.text from query_llm, lines 251-277.
ClassifyWeb ==
    /\ probe = NoProbe
    /\ \E x \in PhraseTexts \cup HedgeTexts \cup ErrorTexts :
          probe' = [fn |-> "_process_web_content", sync |-> FALSE, kind |-> x.kind,
                    text |-> x.text, part |-> x.part,
                    out |-> WebAfterSynthesis([at |-> "generate", val |-> Str(x.text)])]
    /\ UNCHANGED <<agent_vars, chat_sessions, chat_messages, http, kb_vars, session_state>>

\* aggregate_answers receives a completion with the content x.text, from
\* ainvoke (lines 324-328) or from the sync fallback (lines 332-337).
CleanAggregation ==
    /\ probe = NoProbe
    /\ \E x \in ThinkTexts : \E sync \in BOOLEAN :
          probe' = [fn |-> "aggregate_answers", sync |-> sync, kind |-> x.kind,
                    text |-> x.text, part |-> x.part,
                    out |-> Str(IF sync
                                THEN AggAfterInvoke(Message(x.text), None, None, None)
                                ELSE AggAfterAinvoke(Message(x.text), None, None, None))]
    /\ UNCHANGED <<agent_vars, chat_sessions, chat_messages, http, kb_vars, session_state>>

ClassifierNext == ClassifyRag \/ ClassifyWeb \/ CleanAggregation

ClassifierSpec == Init /\ [][ClassifierNext]_vars

(***************************************************************************)
(* The chat API: views.py                                                  *)
(***************************************************************************)

\* views.py:25-28, the keys of AGENTS
AGENTS == {Subject, SUBJECT_MATH, SUBJECT_PHYSICS}

save_max_length == 10000

\* An answer longer than save_max_length.
TEXT_LONG == PARAGRAPH \o PARAGRAPH \o TEXT_FINAL

\* TruncatedMessage as it would be if the content were stored as it is.
WholeMessage(content) == content

\* Lines 44-47: the content _save_message_async stores for content.
TruncatedMessage(content) ==
    LET truncated_content ==
            IF content # << >> THEN Prefix(content, save_max_length) ELSE << >>
    IN  IF StrLen(content) > save_max_length
        THEN truncated_content \o TRUNCATED_SUFFIX
        ELSE truncated_content

\* Lines 41-52: the messages of a session after _save_message_async.
SaveMessage(messages, role, content) ==
    Append(messages, [role |-> role, content |-> TruncatedMessage(content)])

\* What agent.get_comprehensive_answer does for the view: it returns the
\* bundle of its five keys, a mapping that has "final" but lacks another
\* key, a plain string or a value of another type, or it raises.
Bundle(final) == [t |-> "bundle", v |-> final]

PartialBundle(final) == [t |-> "partial", v |-> final]

AgentErrors == {Exc("ValueError", EXC_CONNECTION), Exc("RuntimeError", EXC_CONNECTION)}

AgentOutcomes ==
    {Bundle(TEXT_FINAL), Bundle(TEXT_LONG), PartialBundle(TEXT_FINAL), Str(TEXT_STACK), None}
      \cup AgentErrors

\* Line 264
ErrorMessage(e) == SORRY_INTERNAL_PREFIX \o <<e.t>>

\* The fields a request may carry: None stands for a field that is absent.
NameInputs == {None, Str(NAME_RENAMED), Str(<< >>)}

SubjectInputs == {None, Str(<< >>), Str(SUBJECT_UNKNOWN), Str(Subject), Str(SUBJECT_MATH)}

QuestionInputs == {None, Str(QUESTION_1)}

\* The response of a view and the request it answers.
Answered(op, status, chat_id, name, subject, question, agent) ==
    [op |-> op, status |-> status, chat_id |-> chat_id, name |-> name, subject |-> subject,
     question |-> question, agent |-> agent]

\* get_object_or_404(ChatSession, pk=chat_id) finds a row.
Exists(chat_id) == chat_id \in ChatIds /\ chat_sessions[chat_id].stored

\* Line 187: not subject or subject not in AGENTS
SubjectRejected(subject) == ~Truthy(subject) \/ subject.v \notin AGENTS

\* CreateChat as it would be without the test of line 187.
CreateChatUnchecked ==
    \E name \in NameInputs \ {Str(<< >>)}, subject \in SubjectInputs :
        /\ \E id \in ChatIds : ~chat_sessions[id].stored
        /\ LET id == CHOOSE i \in ChatIds :
                         ~chat_sessions[i].stored
                         /\ \A k \in ChatIds : ~chat_sessions[k].stored => i <= k
           IN  /\ chat_sessions' =
                     [chat_sessions EXCEPT ![id] =
                         [name |-> IF name = None THEN NAME_DEFAULT ELSE name.v,
                          subject |-> subject.v, stored |-> TRUE]]
               /\ http' = Answered("create", 201, id, name, subject, None, None)
        /\ UNCHANGED <<agent_vars, probe, chat_messages, kb_vars, session_state>>

\* ChatSessionListView.post, lines 182-194
CreateChat ==
    \E name \in NameInputs \ {Str(<< >>)}, subject \in SubjectInputs :
        /\ SubjectRejected(subject) \/ \E id \in ChatIds : ~chat_sessions[id].stored
        /\ IF SubjectRejected(subject)
           THEN /\ http' = Answered("create", 400, 0, name, subject, None, None)
                /\ UNCHANGED chat_sessions
           ELSE LET id == CHOOSE i \in ChatIds :
                             ~chat_sessions[i].stored
                             /\ \A k \in ChatIds : ~chat_sessions[k].stored => i <= k
                IN  /\ chat_sessions' =
                          [chat_sessions EXCEPT ![id] =
                              [name |-> IF name = None THEN NAME_DEFAULT ELSE name.v,
                               subject |-> subject.v, stored |-> TRUE]]
                    /\ http' = Answered("create", 201, id, name, subject, None, None)
        /\ UNCHANGED <<agent_vars, probe, chat_messages, kb_vars, session_state>>

\* ChatSessionDetailView.patch, lines 207-216
UpdateChat ==
    \E chat_id \in RequestChatIds, name \in NameInputs,
       subject \in SubjectInputs \ {Str(Subject)} :
        /\ IF ~Exists(chat_id)
           THEN /\ http' = Answered("patch", 404, chat_id, name, subject, None, None)
                /\ UNCHANGED chat_sessions
           ELSE IF name = Str(<< >>)
           THEN \* serializer.is_valid() fails: name may not be blank
                /\ http' = Answered("patch", 400, chat_id, name, subject, None, None)
                /\ UNCHANGED chat_sessions
           ELSE IF subject # None /\ subject.v \notin AGENTS
           THEN /\ http' = Answered("patch", 400, chat_id, name, subject, None, None)
                /\ UNCHANGED chat_sessions
           ELSE /\ chat_sessions' =
                      [chat_sessions EXCEPT
                          ![chat_id].name = IF name = None THEN @ ELSE name.v,
                          ![chat_id].subject = IF subject = None THEN @ ELSE subject.v]
                /\ http' = Answered("patch", 200, chat_id, name, subject, None, None)
        /\ UNCHANGED <<agent_vars, probe, chat_messages, kb_vars, session_state>>

\* ChatSessionDetailView.delete, lines 219-222; the messages go with the
\* session (on_delete=CASCADE).
DeleteChat ==
    \E chat_id \in RequestChatIds :
        /\ IF ~Exists(chat_id)
           THEN /\ http' = Answered("delete", 404, chat_id, None, None, None, None)
                /\ UNCHANGED <<chat_sessions, chat_messages>>
           ELSE /\ chat_sessions' = [chat_sessions EXCEPT ![chat_id] = NoSession]
                /\ chat_messages' = [chat_messages EXCEPT ![chat_id] = << >>]
                /\ http' = Answered("delete", 204, chat_id, None, None, None, None)
        /\ UNCHANGED <<agent_vars, probe, kb_vars, session_state>>

\* Lines 241-266: the messages stored once the agent call has ended with
\* out, and whether _handle_post_async returns ("ok", with all keys or not)
\* or raises.
HandlePostAsync(messages, question, out) ==
    LET asked == SaveMessage(messages, "user", question)
    IN  IF out.t \in {"bundle", "partial"}
        THEN [messages |-> SaveMessage(asked, "assistant", out.v),
              result |-> IF out.t = "bundle" THEN "ok" ELSE "incomplete"]
        ELSE IF IsStr(out)
        THEN [messages |-> SaveMessage(asked, "assistant", out.v), result |-> "ok"]
        ELSE IF out = None
        THEN [messages |-> SaveMessage(asked, "assistant",
                                       ErrorMessage(Exc("ValueError", << >>))),
              result |-> "raised"]
        ELSE [messages |-> SaveMessage(asked, "assistant", ErrorMessage(out)),
              result |-> "raised"]

\* QueryView.post, lines 277-316, with _handle_post_async, lines 229-273
Query ==
    \E chat_id \in RequestChatIds, subject \in {Str(Subject), Str(SUBJECT_UNKNOWN)},
       question \in QuestionInputs, out \in AgentOutcomes :
        /\ Exists(chat_id) => Len(chat_messages[chat_id]) + 2 <= MaxMessages
        /\ IF question = None
           THEN \* request_serializer.is_valid() fails
                /\ http' = Answered("query", 400, chat_id, None, subject, question, None)
                /\ UNCHANGED chat_messages
           ELSE IF ~Exists(chat_id) \/ subject.v \notin AGENTS
           THEN \* Http404 of _get_chat_session_async or _get_agent
                /\ http' = Answered("query", 404, chat_id, None, subject, question, None)
                /\ UNCHANGED chat_messages
           ELSE LET done == HandlePostAsync(chat_messages[chat_id], question.v, out)
                IN  /\ chat_messages' = [chat_messages EXCEPT ![chat_id] = done.messages]
                    /\ http' = Answered("query",
                                        IF done.result = "ok" THEN 200 ELSE 500,
                                        chat_id, None, subject, question, out)
        /\ UNCHANGED <<agent_vars, probe, chat_sessions, kb_vars, session_state>>

ViewNext == CreateChat \/ UpdateChat \/ DeleteChat \/ Query

ViewSpec == Init /\ [][ViewNext]_vars

(***************************************************************************)
(* create_knowledge_base and get_rag_answer on request threads.  Every     *)
(* view runs its coroutine through async_to_sync (views.py lines 158 and   *)
(* 287), each request on its own thread and event loop, and the agents of  *)
(* AGENTS are shared by all of them: a step is one read or one write of    *)
(* self.qa_chain, or one call of a collaborator.                           *)
(***************************************************************************)

\* What process_documents does in the executor (utils.py lines 13-97): it
\* writes the vector store and returns it, returns None, or raises.
ProcessOutcomes == {"store", "none", "raise"}

\* Lines 84-92: create_knowledge_base is called and hands process_documents
\* to the executor.
CreateKnowledgeBase ==
    /\ upload.pc = "idle" /\ upload.ended < MaxUploads
    /\ upload' = [upload EXCEPT !.pc = "executor", !.outcome = "none"]
    /\ UNCHANGED <<agent_vars, probe, chat_sessions, chat_messages, http, persist_dir, index,
                   built_from, vector_store, rag_call, session_state>>

\* process_documents ends: the directory exists once its line 30 has run,
\* which is the last line of it that can raise, and line 87 of agent.py
\* stores what it returned.
ProcessDocuments ==
    /\ upload.pc = "executor"
    /\ \E outcome \in ProcessOutcomes :
          /\ persist_dir' = IF outcome = "raise" THEN persist_dir ELSE TRUE
          /\ index' = IF outcome = "store" THEN index + 1 ELSE index
          /\ vector_store' = IF outcome = "store" THEN index'
                             ELSE IF outcome = "none" THEN 0 ELSE vector_store
          /\ upload' = [upload EXCEPT !.pc = IF outcome = "raise" THEN "line102" ELSE "line93"]
    /\ UNCHANGED <<agent_vars, probe, chat_sessions, chat_messages, http, built_from, rag_call,
                   session_state>>

\* Line 93, or lines 102-104: the cached chain is cleared and the call
\* returns, or raises.
ClearChain ==
    /\ upload.pc \in {"line93", "line102"}
    /\ qa_chain' = FALSE
    /\ vector_store' = IF upload.pc = "line102" THEN 0 ELSE vector_store
    /\ upload' = [upload EXCEPT !.pc = "idle", !.ended = @ + 1,
                                !.outcome = IF upload.pc = "line102" THEN "raised"
                                            ELSE "returned"]
    /\ UNCHANGED <<live, req, probe, chat_sessions, chat_messages, http, persist_dir, index,
                   built_from, rag_call, session_state>>

\* The variables a step of get_rag_answer on a thread leaves alone, but for
\* self.qa_chain and built_from.
rag_frame == <<live, req, probe, chat_sessions, chat_messages, http, persist_dir, index,
               vector_store, upload, session_state>>

\* get_rag_answer on thread t ends with out.
RagReturn(t, out) == rag_call' = [rag_call EXCEPT ![t].pc = "done", ![t].out = out]

\* Lines 133-134 and 108: get_rag_answer is called on thread t and
\* initialize_qa_chain reads self.qa_chain.
GetRagAnswer(t) ==
    /\ rag_call[t].pc = "idle"
    /\ rag_call' = [rag_call EXCEPT ![t].pc = IF qa_chain THEN "line137" ELSE "line112",
                                    ![t].entered_at = upload.ended]
    /\ UNCHANGED <<qa_chain, built_from, rag_frame>>

\* Lines 112-116 and 125-129: get_retriever gives a retriever on the store
\* as it is, or none (no directory, or an exception in it or after it):
\* without one, self.qa_chain is set to None and line 135 returns.
GetRetriever(t) ==
    /\ rag_call[t].pc = "line112"
    /\ \E retriever \in (IF persist_dir THEN BOOLEAN ELSE {FALSE}) :
          IF retriever
          THEN /\ rag_call' = [rag_call EXCEPT ![t].pc = "line117", ![t].retriever = index]
               /\ UNCHANGED <<qa_chain, built_from>>
          ELSE /\ qa_chain' = FALSE
               /\ RagReturn(t, Str(RAG_INIT_ERROR))
               /\ UNCHANGED built_from
    /\ UNCHANGED rag_frame

\* Lines 117-124: the chain made of the retriever is stored in self.qa_chain.
BuildChain(t) ==
    /\ rag_call[t].pc = "line117"
    /\ qa_chain' = TRUE
    /\ built_from' = rag_call[t].retriever
    /\ rag_call' = [rag_call EXCEPT ![t].pc = "line137"]
    /\ UNCHANGED rag_frame

\* Line 137 reads self.qa_chain; line 179 returns when it is None.
TestChain(t) ==
    /\ rag_call[t].pc = "line137"
    /\ IF qa_chain
       THEN rag_call' = [rag_call EXCEPT ![t].pc = "line140"]
       ELSE RagReturn(t, Str(RAG_NO_CHAIN))
    /\ UNCHANGED <<qa_chain, built_from, rag_frame>>

\* Line 140 reads self.qa_chain and calls its ainvoke; on None the
\* AttributeError is caught at line 174.
InvokeChain(t) ==
    /\ rag_call[t].pc = "line140"
    /\ IF qa_chain
       THEN rag_call' = [rag_call EXCEPT ![t].pc = "ainvoke", ![t].used = Append(@, built_from)]
       ELSE RagReturn(t, RagAfterAinvoke(Exc("Exception", << >>)))
    /\ UNCHANGED <<qa_chain, built_from, rag_frame>>

\* The awaited call settles, lines 140-177.
ChainAinvokeSettles(t) ==
    /\ rag_call[t].pc = "ainvoke"
    /\ \E out \in ChainOutcomes :
          IF RagFallsBackToSync(out)
          THEN rag_call' = [rag_call EXCEPT ![t].pc = "line160"]
          ELSE RagReturn(t, RagAfterAinvoke(out))
    /\ UNCHANGED <<qa_chain, built_from, rag_frame>>

\* Lines 158-172: line 160 reads self.qa_chain and hands its invoke to the
\* executor, which settles; on None the AttributeError is caught at line 169.
InvokeFallback(t) ==
    /\ rag_call[t].pc = "line160"
    /\ IF qa_chain
       THEN \E out \in ChainOutcomes :
               rag_call' = [rag_call EXCEPT ![t].pc = "done", ![t].out = RagAfterInvoke(out),
                                            ![t].used = Append(@, built_from)]
       ELSE RagReturn(t, RagAfterInvoke(Exc("Exception", << >>)))
    /\ UNCHANGED <<qa_chain, built_from, rag_frame>>

KbNext ==
    \/ CreateKnowledgeBase
    \/ ProcessDocuments
    \/ ClearChain
    \/ \E t \in Threads :
          \/ GetRagAnswer(t)
          \/ GetRetriever(t)
          \/ BuildChain(t)
          \/ TestChain(t)
          \/ InvokeChain(t)
          \/ ChainAinvokeSettles(t)
          \/ InvokeFallback(t)

KbSpec == Init /\ [][KbNext]_vars

(***************************************************************************)
(* The chats of the Streamlit app                                          *)
(***************************************************************************)

\* The variables the app leaves alone.
app_frame == <<agent_vars, probe, chat_sessions, chat_messages, http, kb_vars>>

\* app.py lines 202-204: the "New Chat" button.
NewChatClicked ==
    /\ session_state.created < MaxCreated
    /\ session_state' = create_new_chat(session_state, TRUE)
    /\ UNCHANGED app_frame

\* app.py lines 244-246: the delete button of a chat in the sidebar, or of
\* a chat that a rerun has not yet removed from it.
DeleteChatClicked(chat_id) ==
    /\ chat_id \in 1..session_state.created
    /\ session_state.created < MaxCreated \/ ChatKeys(session_state) # {chat_id}
    /\ session_state' = delete_chat(session_state, chat_id)
    /\ UNCHANGED app_frame

AppNext == NewChatClicked \/ \E chat_id \in 1..MaxCreated : DeleteChatClicked(chat_id)

AppSpec == Init /\ [][AppNext]_vars

(***************************************************************************)
(* Properties of get_comprehensive_answer and aggregate_answers            *)
(***************************************************************************)

\* The keys of the mapping get_comprehensive_answer returns (line 359).
BundleKeys == {"final", "rag", "llm", "web", "sources"}

\* C1: every call of get_comprehensive_answer ends by returning, never by
\* raising, whatever the search, the chain, the baseline model, the scrapes
\* and the two completion calls do; the mapping it returns has the keys
\* final, rag, llm, web and sources, and its final value is non-empty.
C1_AlwaysReturnsBundle ==
    \A c \in Calls :
        /\ req[c].outcome # "raised"
        /\ req[c].outcome = "returned" =>
              /\ DOMAIN req[c].results = BundleKeys
              /\ Truthy(req[c].results.final)

\* A call has returned although the search raised, no retriever was there,
\* the baseline completion raised and the aggregation's completion raised.
C1_Witness ==
    \E c \in Calls :
        /\ req[c].outcome = "returned"
        /\ IsException(req[c].search_result)
        /\ req[c].task["rag"].out = Str(RAG_INIT_ERROR)
        /\ req[c].seen.llm_ainvoke = "Exception"
        /\ req[c].seen.agg_ainvoke = "Exception"

\* The ways a source fails that total failure is made of: no retriever or a
\* failing chain, a failing baseline call, a failed search or scrape or
\* synthesis, and a fetcher task that raises.
RagFailed(s) ==
    \/ s.task["rag"].faulted
    \/ s.task["rag"].out \in {Str(RAG_INIT_ERROR), Str(RAG_ERROR), Str(RAG_ERROR_SYNC)}

LlmFailed(s) ==
    \/ s.task["llm"].faulted
    \/ s.task["llm"].out \in {Str(LLM_ERROR), Str(LLM_ERROR_SYNC)}

WebFailed(s) ==
    \/ Truthy(s.initial_web_error)
    \/ s.task["web"].faulted
    \/ s.task["web"].out \in {Str(WEB_SCRAPE_FAILED), Str(WEB_SYNTH_ERROR)}

\* C2: when all three sources have failed, in whatever way (a task that
\* raises and a search call that raises included), the final answer is the
\* "Sorry, I could not find a reliable answer from any source." message with
\* the three failure strings, and the aggregation makes no completion call.
C2_TotalFailureIsExplicit ==
    \A c \in Calls :
        LET s == req[c]
        IN  (s.outcome = "returned" /\ RagFailed(s) /\ LlmFailed(s) /\ WebFailed(s)) =>
               /\ s.results.final =
                     Str(FailureDetails(s.results.rag, s.results.llm, s.results.web))
               /\ s.calls.agg_ainvoke = 0
               /\ s.calls.agg_invoke = 0

\* The prefix of the string lines 398-401 store for a task that raised.
TaskErrorPrefix(k) ==
    CASE k = "rag" -> RAG_TASK_ERROR_PREFIX
      [] k = "llm" -> LLM_TASK_ERROR_PREFIX
      [] k = "web" -> WEB_TASK_ERROR_PREFIX

\* C3: when exactly one of the three fetcher tasks raises, the two others
\* run to completion and their results are stored unchanged in their
\* fields; only the field of the failing task holds an "Error in ... task"
\* string, in whatever order the tasks settle.
C3_OneFailureIsIsolated ==
    \A c \in Calls : \A k \in Sources :
        LET s == req[c]
        IN  (/\ s.pc = "DONE"
             /\ s.task[k].faulted
             /\ \A j \in Sources \ {k} : ~s.task[j].faulted) =>
               /\ s.results[k] = Str(TaskErrorPrefix(k) \o s.task[k].out.v)
               /\ \A j \in Sources \ {k} :
                     /\ s.task[j].st = "settled"
                     /\ IsStr(s.task[j].out)
                     /\ s.results[j] = s.task[j].out
                     /\ ~StartsWith(s.results[j].v, <<"Error", " ", "in">>)

\* The baseline fetcher alone raised, and the call returned with the chain's
\* answer and the web synthesis in place.
C3_Witness ==
    \E c \in Calls :
        LET s == req[c]
        IN  /\ s.outcome = "returned"
            /\ s.should_run_web_task
            /\ s.task["llm"].faulted /\ ~s.task["rag"].faulted /\ ~s.task["web"].faulted
            /\ s.calls.chain_ainvoke = 1
            /\ s.calls.query_llm = 1

\* C4: a call goes through SEARCHING, FETCHING and DONE in this order, each
\* once; the web fetcher does not start before the search has settled, and
\* aggregate_answers is not entered before all three tasks have settled.
C4_PhasesInOrder ==
    \A c \in Calls :
        LET s == req[c]
        IN  /\ s.phases \in {<< >>, <<"SEARCHING">>, <<"SEARCHING", "FETCHING">>,
                             <<"SEARCHING", "FETCHING", "DONE">>}
            /\ s.pc = IF s.phases = << >> THEN "idle" ELSE s.phases[Len(s.phases)]
            /\ s.task["web"].st # "none" => s.search_result # Pending
            /\ s.agg.st # "none" =>
                  \A k \in Sources : s.task[k].st = "settled" /\ s.task[k].out # Pending

\* A call that scraped two pages has gone through the three phases.
C4_Witness ==
    \E c \in Calls :
        /\ req[c].outcome = "returned"
        /\ req[c].phases = <<"SEARCHING", "FETCHING", "DONE">>
        /\ req[c].calls.scrape_url = 2
        /\ req[c].agg.st = "done"

\* C5: when aggregate_answers is given three unavailable answers, it makes
\* no completion call and its result contains each of the three raw inputs.
C5_NoAnswerNoCompletion ==
    \A c \in Calls :
        LET s == req[c]
            a == s.agg
        IN  (/\ a.st # "none"
             /\ ~RagIsAvailable(a.rag_answer)
             /\ ~LlmIsAvailable(a.llm_answer)
             /\ ~WebIsAvailable(a.web_answer)) =>
               /\ s.calls.agg_ainvoke = 0 /\ s.calls.agg_invoke = 0
               /\ s.outcome = "returned"
               /\ Contains(s.results.final.v, a.rag_answer.v)
               /\ Contains(s.results.final.v, a.llm_answer.v)
               /\ Contains(s.results.final.v, a.web_answer.v)

\* aggregate_answers was given three non-empty unavailable answers.
C5_Witness ==
    \E c \in Calls :
        LET a == req[c].agg
        IN  /\ req[c].outcome = "returned"
            /\ a.rag_answer = Str(RAG_NO_ANSWER)
            /\ a.llm_answer = Str(LLM_ERROR)
            /\ a.web_answer = Str(WEB_NO_WEBSITES)

\* The string the fallback of lines 350-353 builds from the first available
\* answer in the order documents, web, baseline model.
ExpectedFallback(a) ==
    IF RagIsAvailable(a.rag_answer) THEN AGG_FAILED_DOCS \o a.rag_answer.v
    ELSE IF WebIsAvailable(a.web_answer) THEN AGG_FAILED_WEB \o a.web_answer.v
    ELSE AGG_FAILED_LLM \o a.llm_answer.v

\* The fallback result carries exactly one raw answer, the preferred one.
CarriesPreferredOnly(s) ==
    LET a == s.agg
        final == s.results.final.v
        onlyWeb == /\ ~RagIsAvailable(a.rag_answer)
                   /\ ~LlmIsAvailable(a.llm_answer)
                   /\ WebIsAvailable(a.web_answer)
    IN  /\ StartsWith(final, AGG_FAILED)
        /\ final = ExpectedFallback(a)
        /\ onlyWeb =>
              /\ Contains(final, a.web_answer.v)
              /\ a.rag_answer.v # << >> => ~Contains(final, a.rag_answer.v)
              /\ a.llm_answer.v # << >> => ~Contains(final, a.llm_answer.v)

\* C6 (as stated): when the aggregation's completion call fails,
\* aggregate_answers does not raise and returns a string that starts with
\* "(Aggregation Failed)" and carries exactly one raw answer, chosen in the
\* order documents, web, baseline model; with only the web answer available
\* it contains the web answer and neither of the two others.
C6_FailedCompletionFallsBack ==
    \A c \in Calls :
        LET s == req[c]
        IN  (s.outcome = "returned" /\ IsException([t |-> s.seen.agg_ainvoke])) =>
               CarriesPreferredOnly(s)

\* C6 (amended): the fallback string is returned when the awaited completion
\* call raises anything but NotImplementedError, or when the synchronous
\* call made after a NotImplementedError raises as well; a synchronous call
\* that succeeds yields the synthesized answer instead.
C6_FailedCompletionFallsBack_Amended ==
    \A c \in Calls :
        LET s == req[c]
        IN  /\ s.outcome # "raised"
            /\ (/\ s.outcome = "returned"
                /\ \/ s.seen.agg_ainvoke = "Exception"
                   \/ IsException([t |-> s.seen.agg_invoke])) =>
                  CarriesPreferredOnly(s)
            /\ (/\ s.outcome = "returned"
                /\ s.seen.agg_ainvoke = "NotImplementedError"
                /\ s.seen.agg_invoke = "AIMessage") =>
                  ~StartsWith(s.results.final.v, AGG_FAILED)

\* The completion call raised with the web answer alone available.
C6_Witness ==
    \E c \in Calls :
        LET a == req[c].agg
        IN  /\ req[c].outcome = "returned"
            /\ req[c].seen.agg_ainvoke = "Exception"
            /\ ~RagIsAvailable(a.rag_answer)
            /\ ~LlmIsAvailable(a.llm_answer)
            /\ WebIsAvailable(a.web_answer)
            /\ a.rag_answer.v # << >>
            /\ req[c].calls.query_llm = 1

\* The search returned a non-empty list with an element that carries an
\* error marker.
SearchGaveErrorList(s) ==
    /\ s.search_result.t = "list"
    /\ s.search_result.v # << >>
    /\ \E i \in DOMAIN s.search_result.v :
          \/ Contains(s.search_result.v[i], <<"Error">>)
          \/ Contains(s.search_result.v[i], <<"Missing">>)

\* C7: when the search returns an error list, the web fetcher is not
\* launched and no page is scraped; the web field is "Web search failed: "
\* followed by the first element, sources is ["Web search failed."], and
\* what the third gathered task yields does not overwrite the web field.
C7_ErrorListSkipsWeb ==
    \A c \in Calls :
        LET s == req[c]
        IN  SearchGaveErrorList(s) =>
               /\ ~s.should_run_web_task
               /\ s.task["web"].st \in {"created", "settled"}
               /\ s.calls.scrape_url = 0 /\ s.calls.query_llm = 0
               /\ s.results.web = Str(WEB_SEARCH_FAILED_PREFIX \o s.search_result.v[1])
               /\ s.results.sources = <<SRC_SEARCH_FAILED>>

\* A call returned after the search reported missing credentials.
C7_Witness ==
    \E c \in Calls :
        /\ req[c].outcome = "returned"
        /\ req[c].search_result.t = "list"
        /\ req[c].search_result.v = <<SEARCH_NO_CREDENTIALS>>
        /\ req[c].task["web"].st = "settled"

\* C8: the document and baseline fetchers are launched whatever the search
\* did; the web fetcher is launched exactly when the search returned a
\* non-empty URL list without error marker; an empty list sets the web field
\* to the "no relevant websites" message and skips the web fetcher.
C8_LaunchRule ==
    \A c \in Calls :
        LET s == req[c]
            usable == /\ s.search_result.t = "list"
                      /\ s.search_result.v # << >>
                      /\ ~SearchGaveErrorList(s)
        IN  s.pc \in {"FETCHING", "DONE"} =>
               /\ s.task["rag"].st # "none" /\ s.task["llm"].st # "none"
               /\ s.pc = "DONE" => s.calls.get_retriever + s.calls.chain_ainvoke >= 1
               /\ s.pc = "DONE" => s.calls.llm_ainvoke = 1
               /\ s.should_run_web_task <=> usable
               /\ s.calls.scrape_url > 0 => usable
               /\ (usable /\ s.pc = "DONE") => s.calls.scrape_url = Len(s.search_result.v)
               /\ (s.search_result.t = "list" /\ s.search_result.v = << >>) =>
                     /\ s.results.web = Str(WEB_NO_WEBSITES)
                     /\ s.calls.scrape_url = 0

\* The search raised and the two other fetchers ran all the same.
C8_Witness ==
    \E c \in Calls :
        /\ req[c].pc = "DONE"
        /\ IsException(req[c].search_result)
        /\ req[c].calls.chain_ainvoke = 1
        /\ req[c].calls.llm_ainvoke = 1
        /\ req[c].calls.scrape_url = 0

\* C9 (as stated): within one call each source is attempted once: at most
\* one invocation of the chain, one of the baseline model and one web
\* synthesis, also on the paths taken after a call fails.
C9_EachSourceOnce ==
    \A c \in Calls :
        /\ req[c].calls.chain_ainvoke + req[c].calls.chain_invoke <= 1
        /\ req[c].calls.llm_ainvoke + req[c].calls.llm_invoke <= 1
        /\ req[c].calls.query_llm <= 1

\* C9 (amended): within one call the chain and the baseline model are each
\* awaited at most once and the web synthesis is called at most once; a
\* second, synchronous invocation of the chain or of the baseline model is
\* made exactly when the awaited one raised NotImplementedError, and no
\* other failure is retried.
C9_EachSourceOnce_Amended ==
    \A c \in Calls :
        LET s == req[c]
        IN  /\ s.calls.chain_ainvoke <= 1 /\ s.calls.llm_ainvoke <= 1
            /\ s.calls.query_llm <= 1
            /\ s.calls.chain_invoke =
                  IF s.seen.chain_ainvoke = "NotImplementedError" THEN 1 ELSE 0
            /\ s.calls.llm_invoke =
                  IF s.seen.llm_ainvoke = "NotImplementedError" THEN 1 ELSE 0

\* Chain and baseline call both raised and the synthesis was made: the
\* call returned without a second attempt.
C9_Witness ==
    \E c \in Calls :
        /\ req[c].outcome = "returned"
        /\ req[c].seen.chain_ainvoke = "Exception"
        /\ req[c].seen.llm_ainvoke = "Exception"
        /\ req[c].calls.query_llm = 1

\* aggregate_answers was entered with at least one available answer.
SomeAnswerAvailable(a) ==
    \/ RagIsAvailable(a.rag_answer)
    \/ LlmIsAvailable(a.llm_answer)
    \/ WebIsAvailable(a.web_answer)

\* C10 (as stated): when at least one source is available, aggregate_answers
\* invokes the completion exactly once, also when that invocation fails.
C10_OneAggregationCall ==
    \A c \in Calls :
        (req[c].outcome = "returned" /\ SomeAnswerAvailable(req[c].agg)) =>
            req[c].calls.agg_ainvoke + req[c].calls.agg_invoke = 1

\* C10 (amended): when at least one source is available, aggregate_answers
\* awaits the completion exactly once, and invokes it a second time,
\* synchronously, exactly when the awaited call raised NotImplementedError.
C10_OneAggregationCall_Amended ==
    \A c \in Calls :
        LET s == req[c]
        IN  (s.agg.st # "none" /\ SomeAnswerAvailable(s.agg)) =>
               /\ s.calls.agg_ainvoke = 1
               /\ s.calls.agg_invoke =
                     IF s.seen.agg_ainvoke = "NotImplementedError" THEN 1 ELSE 0

\* The awaited completion raised with an answer available, and
\* aggregate_answers returned.
C10_Witness ==
    \E c \in Calls :
        /\ req[c].outcome = "returned"
        /\ RagIsAvailable(req[c].agg.rag_answer)
        /\ req[c].seen.agg_ainvoke = "Exception"
        /\ req[c].calls.agg_invoke = 0

(***************************************************************************)
(* The cleaning of the aggregator's completion                             *)
(***************************************************************************)

\* The tokens of s that str.strip() and "\s*" do not match.
NonSpace(s) == SelectSeq(s, LAMBDA t : ~IsSpace(t))

ThinkMarkers == {"<think>", "</think>"}

HasThinkMarker(s) == \E i \in DOMAIN s : s[i] \in ThinkMarkers

Cleaned == probe.fn = "aggregate_answers"

\* C11: the text the aggregator returns for a completion made of text and
\* closed <think>...</think> blocks (empty, one-line or multi-line, one or
\* two of them) carries no block: it is the text outside the blocks, in
\* order, each block ending at the first "</think>" after its "<think>";
\* "<think>internal notes</think>Final text." gives exactly "Final text.";
\* and when nothing but white space is left outside the blocks the fixed
\* message about an empty aggregation is returned, never the empty string.
C11_ThinkBlocksRemoved ==
    Cleaned =>
        /\ IsStr(probe.out)
        /\ probe.out.v # << >>
        /\ ~HasThinkMarker(probe.out.v)
        /\ NonSpace(probe.part) # << >> =>
               /\ NonSpace(probe.out.v) = NonSpace(probe.part)
               /\ probe.out.v = Strip(probe.out.v)
        /\ NonSpace(probe.part) = << >> =>
               probe.out.v = (IF probe.sync THEN AGG_EMPTY_SYNC ELSE AGG_EMPTY)
        /\ probe.text = TEXT_THINK => probe.out.v = TEXT_FINAL

\* Two blocks with text between them and after them were cleaned.
C11_Witness ==
    /\ Cleaned
    /\ probe.text = THINK_OPEN \o THINK_NOTES_LINES \o THINK_CLOSE \o NEWLINE
                      \o TEXT_FINAL \o THINK_MORE \o THINK_POST
    /\ probe.out.v = TEXT_FINAL \o THINK_POST

(***************************************************************************)
(* The sources field                                                       *)
(***************************************************************************)

\* google_search returned a non-empty list without error marker to call c.
SearchSucceeded(c) ==
    /\ req[c].search_result.t = "list"
    /\ req[c].search_result.v # << >>
    /\ ~HasErrorMarker(req[c].search_result.v)

\* C12: from the moment the search step has succeeded until the call has
\* returned, the sources field of the bundle is the list google_search
\* returned, same URLs in the same order, whatever the scrapes of these URLs
\* and the web synthesis produce and in whatever order the scrapes settle.
C12_SourcesAreSearchHits ==
    \A c \in Calls :
        SearchSucceeded(c) =>
            /\ req[c].results.sources = req[c].search_result.v
            /\ Len(req[c].results.sources) = Len(req[c].search_result.v)
            /\ \A i \in DOMAIN req[c].results.sources :
                   req[c].results.sources[i] = UrlPool[i]

\* A call returned with the two hits of the search as its sources although
\* no page could be scraped.
C12_Witness ==
    \E c \in Calls :
        /\ req[c].outcome = "returned"
        /\ SearchSucceeded(c)
        /\ req[c].results.sources = <<URL_1, URL_2>>
        /\ req[c].results.web = Str(WEB_SCRAPE_FAILED)

(***************************************************************************)
(* The baseline answer of an empty completion                              *)
(***************************************************************************)

\* The awaited baseline completion of s returned a message and
\* get_llm_answer returned in its turn.
BaselineSucceeded(s) ==
    /\ s.seen.llm_ainvoke = "AIMessage"
    /\ s.task["llm"].st = "settled"
    /\ ~s.task["llm"].faulted

\* C13: when llm.ainvoke returned a message, get_llm_answer returns a
\* non-empty string, the fixed LLM_EMPTY message taking the place of an
\* empty completion text, and the llm field of the returned bundle is
\* non-empty.
C13_EmptyCompletionIsReported ==
    \A c \in Calls :
        BaselineSucceeded(req[c]) =>
            /\ IsStr(req[c].task["llm"].out)
            /\ req[c].task["llm"].out.v # << >>
            /\ req[c].outcome = "returned" => req[c].results.llm.v # << >>

(***************************************************************************)
(* The web fetcher when no page could be read                              *)
(***************************************************************************)

\* Every scrape of s has settled and none gave text: each raised or
\* returned the empty string.
NoUsableText(s) ==
    /\ s.task["web"].st = "scraping"
    /\ s.scrape_results # << >>
    /\ \A i \in DOMAIN s.scrape_results :
          IsException(s.scrape_results[i]) \/ s.scrape_results[i] = Str(<< >>)

\* _process_web_content returned in this step.
WebFetcherReturns(c) ==
    /\ req[c].task["web"].st = "scraping"
    /\ req'[c].task["web"].st # "scraping"
    /\ ~IsException(req'[c].task["web"].out)

ClassifiedByRag == probe.fn = "get_rag_answer"

ClassifiedByWeb == probe.fn = "_process_web_content"

\* The string a fetcher returns in place of a text it takes for a negative
\* finding.
NegativeFinding ==
    IF ClassifiedByRag
    THEN Str(IF probe.sync THEN RAG_NO_ANSWER_SYNC ELSE RAG_NO_ANSWER)
    ELSE Str(WEB_NO_SPECIFIC)

\* C15: a completion text that contains "cannot find relevant information"
\* in lower, upper or mixed case, whatever text stands before and after
\* it, makes get_rag_answer and _process_web_content return their fixed
\* negative-finding string.
C15_PhraseMeansUnavailable ==
    (probe.kind = "phrase" /\ (ClassifiedByRag \/ ClassifiedByWeb)) =>
        probe.out = NegativeFinding

\* The text carries the marker by which _process_web_content recognises an
\* error report of query_llm (line 258, case-sensitive).
HasQueryError == \E i \in 1..(Len(probe.text) - 1) :
                     probe.text[i] = "Error" /\ probe.text[i + 1] = ":"

\* C15, amended: such a text makes get_rag_answer return its fixed
\* negative-finding string, and makes _process_web_content return its own
\* unless the text also contains "Error:", in which case the fixed
\* synthesis-error string is returned; the raw text is returned in no case.
C15_PhraseMeansUnavailable_Amended ==
    (probe.kind = "phrase" /\ (ClassifiedByRag \/ ClassifiedByWeb)) =>
        /\ probe.out = (IF ClassifiedByWeb /\ HasQueryError THEN Str(WEB_SYNTH_ERROR)
                        ELSE NegativeFinding)
        /\ probe.out # Str(probe.text)
        /\ Contains(Lower(probe.text), PHRASE_LOWER)

\* The web fetcher classified an answer that carries the phrase in mixed
\* case in the middle of a long sentence.
C15_Witness ==
    /\ ClassifiedByWeb
    /\ probe.text = LEAD_LONG \o PHRASE_MIXED \o TRAIL_LONG
    /\ probe.out = Str(WEB_NO_SPECIFIC)

\* The hedging markers the claim names, and the ones each fetcher tests
\* (lines 147 and 268).
ClaimedHedgeMarkers == {MARK_BASED_ON, MARK_CONTEXT, MARK_CONTENT}

HedgeMarkersOf(fn) ==
    IF fn = "get_rag_answer" THEN {MARK_BASED_ON, MARK_CONTEXT}
    ELSE {MARK_BASED_ON, MARK_CONTENT}

HedgeThresholdOf(fn) ==
    IF fn = "get_rag_answer" THEN RagHedgeThreshold ELSE WebHedgeThreshold

\* The probe is a text without negative-finding phrase: one word or marker
\* followed by full stops up to a length around the thresholds.
HedgeProbe == probe.kind = "hedge" /\ (ClassifiedByRag \/ ClassifiedByWeb)

\* C16: a text without negative-finding phrase is replaced by the fixed
\* negative-finding string exactly when it is shorter than the fetcher's
\* threshold (50, 60) and contains "based on", "context" or "content";
\* otherwise, in particular at exactly 50 (60) characters, it is returned.
C16_TooShortHedge ==
    HedgeProbe =>
        IF /\ StrLen(probe.text) < HedgeThresholdOf(probe.fn)
           /\ probe.part \in ClaimedHedgeMarkers
        THEN probe.out = NegativeFinding
        ELSE probe.out = Str(probe.text)

\* C16, amended: the same with the markers each fetcher tests, "based on"
\* and "context" for the document answer, "based on" and "content" for the
\* web answer.
C16_TooShortHedge_Amended ==
    HedgeProbe =>
        IF /\ StrLen(probe.text) < HedgeThresholdOf(probe.fn)
           /\ probe.part \in HedgeMarkersOf(probe.fn)
        THEN probe.out = NegativeFinding
        ELSE probe.out = Str(probe.text)

\* The web fetcher returned a hedging text of exactly 60 characters.
C16_Witness ==
    /\ ClassifiedByWeb
    /\ probe.kind = "hedge"
    /\ probe.part = MARK_CONTENT
    /\ StrLen(probe.text) = WebHedgeThreshold
    /\ probe.out = Str(probe.text)

(***************************************************************************)
(* Termination of a call                                                   *)
(***************************************************************************)

\* Call c has been entered and has not returned: it is searching, waits at
\* the barrier of line 396 (with or without a launched web fetcher, with
\* tasks settled or not) or waits for the aggregation.
InProgress(c) == req[c].pc \in {"SEARCHING", "FETCHING", "DONE"} /\ req[c].outcome = "none"

\* C17: with every collaborator call settling, a call that was entered
\* returns its bundle in phase DONE, wherever it stands: searching, waiting
\* at the barrier after a failed search with its web fetcher never
\* launched, waiting with all three tasks settled, or aggregating.
C17_CallReturns ==
    \A c \in Calls :
        InProgress(c) ~> (req[c].outcome = "returned" /\ req[c].pc = "DONE")

\* A call returned although its web fetcher was never launched.
C17_Witness ==
    \E c \in Calls :
        /\ req[c].outcome = "returned"
        /\ req[c].pc = "DONE"
        /\ ~req[c].should_run_web_task
        /\ req[c].calls.scrape_url = 0
        /\ AllSettled(req[c])

(***************************************************************************)
(* State kept from one call to the next                                    *)
(***************************************************************************)

\* get_rag_answer of call c runs up to its first await in this step: it
\* reads self.qa_chain in initialize_qa_chain (line 108).
RagFetcherStarts(c) ==
    req[c].task["rag"].st = "created" /\ req'[c].task["rag"].st # "created"

\* Call c is entered in this step.
CallEntered(c) == req[c].pc # "SEARCHING" /\ req'[c].pc = "SEARCHING"

\* C18: a call reads no state an earlier call wrote: when its document
\* fetcher reads self.qa_chain the attribute still has the value the
\* constructor gave it, no earlier call having stored a chain in it.
C18_NoStateAcrossCalls ==
    [][\A c \in Calls : RagFetcherStarts(c) => ~qa_chain]_vars

\* C18, amended: the chain cached in self.qa_chain is the only state a call
\* leaves to a later one. A call is entered with a new bundle, no task, no
\* aggregation frame and no collaborator call but its own search; the chain,
\* once built, stays; and a document fetcher that started without asking
\* get_retriever found the cached chain, one that reports the missing
\* index asked get_retriever in its own call.
C18_NoStateAcrossCalls_Amended ==
    /\ [][\A c \in Calls :
             CallEntered(c) =>
                 /\ req'[c].results = NewBundle
                 /\ req'[c].calls = [NoCall.calls EXCEPT !.google_search = 1]
                 /\ req'[c].task = NoCall.task
                 /\ req'[c].agg = NoCall.agg
                 /\ req'[c].web_urls = << >>
                 /\ req'[c].initial_web_error = None
                 /\ req'[c].outcome = "none"]_vars
    /\ [][qa_chain => qa_chain']_vars
    /\ [](\A c \in Calls :
             /\ (req[c].task["rag"].st \notin {"none", "created"}
                    /\ req[c].calls.get_retriever = 0) => qa_chain
             /\ req[c].task["rag"].out = Str(RAG_INIT_ERROR) =>
                    req[c].calls.get_retriever = 1
             /\ req[c].calls.get_retriever <= 1)

\* A call returned whose document fetcher used the chain an earlier call
\* had built, without asking get_retriever.
C18_Witness ==
    \E c \in Calls :
        /\ req[c].outcome = "returned"
        /\ req[c].calls.get_retriever = 0
        /\ req[c].calls.chain_ainvoke = 1
        /\ qa_chain

(***************************************************************************)
(* The messages a query stores                                             *)
(***************************************************************************)

\* The step answers a query that passed validation and names a stored
\* session and a configured subject.
ValidQueryAnswered ==
    /\ http'.op = "query"
    /\ http'.question # None
    /\ Exists(http'.chat_id)
    /\ http'.subject.v \in AGENTS

\* The agent call of the answered query raised.
AgentRaised(out) == out \in AgentErrors

\* The step stores exactly two messages in the session of the query, the
\* question as the user's and content as the assistant's, and no message
\* in any other session.
StoresQuestionAnd(content) ==
    LET id == http'.chat_id
        old == chat_messages[id]
    IN  /\ chat_messages'[id] =
              old \o <<[role |-> "user", content |-> http'.question.v],
                       [role |-> "assistant", content |-> content]>>
        /\ \A other \in ChatIds \ {id} : chat_messages'[other] = chat_messages[other]

AsStored(answer) ==
    IF answer = TEXT_LONG THEN PARAGRAPH \o PARAGRAPH \o TRUNCATED_SUFFIX ELSE answer

NotConfigured(subject) == subject = None \/ subject.v \notin AGENTS

StoredUnchanged == UNCHANGED <<chat_sessions, chat_messages>>

\* C20: every stored chat session has a subject of AGENTS; a create
\* request without subject or with a subject that is not configured, and an
\* update request on a stored session that sets such a subject, are
\* answered with 400 and leave the stored sessions and messages as they
\* were, as does every request answered with 400.
C20_StoredSubjectsConfigured ==
    /\ [](\A id \in ChatIds :
             chat_sessions[id].stored => chat_sessions[id].subject \in AGENTS)
    /\ [][/\ (http'.op = "create" /\ NotConfigured(http'.subject)) =>
                 (http'.status = 400 /\ StoredUnchanged)
          /\ (http'.op = "patch" /\ Exists(http'.chat_id)
                 /\ http'.subject # None /\ NotConfigured(http'.subject)) =>
                 (http'.status = 400 /\ StoredUnchanged)
          /\ http'.status = 400 => StoredUnchanged]_vars

\* An update that set an unknown subject was answered with 400 and the
\* session kept its subject.
C20_Witness ==
    /\ http.op = "patch"
    /\ http.status = 400
    /\ http.subject = Str(SUBJECT_UNKNOWN)
    /\ Exists(http.chat_id)
    /\ chat_sessions[http.chat_id].subject \in AGENTS

(***************************************************************************)
(* What the fetchers hand to the barrier                                   *)
(***************************************************************************)

\* Task k of s is the fetcher itself (no stub that raises in its place) and
\* it has ended.
FetcherEnded(s, k) == s.task[k].st = "settled" /\ ~s.task[k].faulted

\* Task k of call c ends in this step, the fetcher itself having run.
FetcherEnds(c, k) ==
    /\ req[c].task[k].st \notin {"none", "settled"}
    /\ FetcherEnded(req'[c], k)

\* The strings by which the fetchers report a failed collaborator.
FailureReports ==
    [rag |-> {RAG_INIT_ERROR, RAG_ERROR, RAG_ERROR_SYNC},
     llm |-> {LLM_ERROR, LLM_ERROR_SYNC},
     web |-> {WEB_SCRAPE_FAILED, WEB_SYNTH_ERROR}]

\* C21: no exception leaves get_rag_answer, get_llm_answer or
\* _process_web_content.  Whatever the retriever, the awaited and the
\* synchronous completion calls, the scrapes and the synthesis do, a fetcher
\* that ends has returned a string; a missing retriever, a raised completion
\* call and a failed synthesis give the fixed non-empty message of their
\* handler; and the barrier stores the fetcher's string as it is, never an
\* "Error in ... task" string made of an exception.
C21_FetchersReturnStrings ==
    /\ [](\A c \in Calls : \A k \in Sources :
             LET s == req[c]
             IN  FetcherEnded(s, k) =>
                    /\ ~IsException(s.task[k].out)
                    /\ IsStr(s.task[k].out)
                    /\ (k = "rag" /\ s.calls.chain_ainvoke = 0) =>
                           s.task[k].out = Str(RAG_INIT_ERROR)
                    /\ (k = "rag" /\ s.seen.chain_ainvoke = "Exception") =>
                           s.task[k].out = Str(RAG_ERROR)
                    /\ (k = "llm" /\ s.seen.llm_ainvoke = "Exception") =>
                           s.task[k].out = Str(LLM_ERROR)
                    /\ s.task[k].out.v \in FailureReports[k] => s.task[k].out.v # << >>
                    /\ s.pc = "DONE" =>
                           /\ IsStr(s.results[k])
                           /\ (k # "web" \/ s.should_run_web_task) =>
                                  s.results[k] = s.task[k].out)
    /\ [][\A c \in Calls :
             /\ (FetcherEnds(c, "rag") /\ req[c].task["rag"].st = "invoke") =>
                    ~IsException(req'[c].task["rag"].out)
             /\ (FetcherEnds(c, "llm") /\ req[c].task["llm"].st = "invoke") =>
                    ~IsException(req'[c].task["llm"].out)
             /\ (FetcherEnds(c, "web") /\ req[c].task["web"].st \in {"scraping", "query_llm"}) =>
                    /\ IsStr(req'[c].task["web"].out)
                    /\ req'[c].task["web"].out.v # << >>]_vars

\* A call returned after the chain's awaited call raised, the baseline's
\* synchronous call raised and the synthesis failed: each fetcher reported
\* its failure by a string.
C21_Witness ==
    \E c \in Calls :
        /\ req[c].outcome = "returned"
        /\ \A k \in Sources : FetcherEnded(req[c], k)
        /\ req[c].results.rag = Str(RAG_ERROR)
        /\ req[c].results.llm = Str(LLM_ERROR_SYNC)
        /\ req[c].results.web = Str(WEB_SYNTH_ERROR)
        /\ req[c].calls.query_llm = 1

(***************************************************************************)
(* The document fetcher with and without a retriever                       *)
(***************************************************************************)

\* get_rag_answer of call c has run initialize_qa_chain in this step and no
\* chain is there: get_retriever, asked because no chain was cached, gave no
\* retriever (None, or it raised).
NoRetrieverFound(c) == RagFetcherStarts(c) /\ ~qa_chain'

\* The same step with a chain: the cached one, or one built of the retriever
\* get_retriever gave.
RetrieverFound(c) == RagFetcherStarts(c) /\ qa_chain'

\* The calls of the chain made for s, awaited and synchronous.
ChainCalls(s) == s.calls.chain_ainvoke + s.calls.chain_invoke

\* Without a retriever the fetcher ends at once with RAG_INIT_ERROR, no call
\* of the chain is ever made for the request, and aggregate_answers takes
\* the message for a missing answer and puts RAG_PLACEHOLDER in its place.
IndexUnavailableIsReported ==
    /\ [][\A c \in Calls :
             NoRetrieverFound(c) =>
                 /\ req'[c].task["rag"].st = "settled"
                 /\ req'[c].task["rag"].out = Str(RAG_INIT_ERROR)
                 /\ req'[c].calls.get_retriever = 1
                 /\ ChainCalls(req'[c]) = 0]_vars
    /\ [](\A c \in Calls :
             req[c].task["rag"].out = Str(RAG_INIT_ERROR) =>
                 /\ ChainCalls(req[c]) = 0
                 /\ ~RagIsAvailable(req[c].task["rag"].out)
                 /\ RagInput(req[c].task["rag"].out) = RAG_PLACEHOLDER
                 /\ req[c].agg.st # "none" => req[c].agg.rag_answer = Str(RAG_INIT_ERROR))

\* C22 (as stated): without a retriever the document fetcher makes no call
\* of the chain, returns the message about the missing index, and the
\* aggregator classifies it as unavailable; with a retriever exactly one
\* call of the chain is made.
C22_RetrieverDecidesChainCall ==
    /\ IndexUnavailableIsReported
    /\ [][\A c \in Calls : RetrieverFound(c) => ChainCalls(req'[c]) = 1]_vars
    /\ [](\A c \in Calls :
             (req[c].task["rag"].st = "settled" /\ req[c].calls.chain_ainvoke > 0) =>
                 ChainCalls(req[c]) = 1)

\* C22 (amended): the same without a retriever; with a chain, cached or
\* built of the retriever, the chain is awaited exactly once, and invoked a
\* second time, synchronously, exactly when the awaited call raised
\* NotImplementedError.
C22_RetrieverDecidesChainCall_Amended ==
    /\ IndexUnavailableIsReported
    /\ [][\A c \in Calls :
             RetrieverFound(c) =>
                 /\ req'[c].task["rag"].st = "ainvoke"
                 /\ req'[c].calls.chain_ainvoke = 1
                 /\ req'[c].calls.chain_invoke = 0]_vars
    /\ [](\A c \in Calls :
             req[c].calls.chain_ainvoke > 0 =>
                 /\ req[c].calls.chain_ainvoke = 1
                 /\ req[c].calls.chain_invoke =
                       IF req[c].seen.chain_ainvoke = "NotImplementedError" THEN 1 ELSE 0)

\* A call returned whose document fetcher found no retriever, another
\* source having given an answer for the aggregation.
C22_Witness ==
    \E c \in Calls :
        /\ req[c].outcome = "returned"
        /\ req[c].calls.get_retriever = 1
        /\ req[c].calls.chain_ainvoke = 0
        /\ req[c].results.rag = Str(RAG_INIT_ERROR)
        /\ req[c].calls.agg_ainvoke = 1

(***************************************************************************)
(* The text handed to the web synthesis                                    *)
(***************************************************************************)

\* The text the scrape of a URL contributes: its page text followed by the
\* separator of line 225, nothing when the scrape raised or gave no text.
Contribution(result) ==
    IF IsStr(result) /\ result.v # << >> THEN result.v \o SCRAPE_SEP ELSE << >>

\* The contributions of the first n scrapes, in the order of the URL list.
RECURSIVE ScrapedUpTo(_, _)
ScrapedUpTo(scrape_results, n) ==
    IF n = 0 THEN << >>
    ELSE ScrapedUpTo(scrape_results, n - 1) \o Contribution(scrape_results[n])

\* part is the first budget characters of whole.
IsFirstCharacters(part, whole, budget) ==
    /\ StartsWith(whole, part)
    /\ StrLen(part) = IF StrLen(whole) < budget THEN StrLen(whole) ELSE budget

\* _process_web_content of call c hands its prompt to query_llm in this step.
SynthesisRequested(c) ==
    req[c].task["web"].st = "scraping" /\ req'[c].task["web"].st = "query_llm"

\* C23: the web content of the synthesis prompt is the first 15000
\* characters of the texts of the pages that were scraped with success,
\* concatenated in the order of the URL list (each followed by the separator
\* of line 225), in whatever order the scrapes settled; a scrape that raised
\* or gave no text adds nothing, and the text of every other page that lies
\* within the budget is in the prompt; the prompt is made for the question
\* of the call.
C23_SynthesisTextInUrlOrder ==
    [][\A c \in Calls :
          SynthesisRequested(c) =>
              LET scrape_results == req[c].scrape_results
                  whole == ScrapedUpTo(scrape_results, Len(scrape_results))
                  sent == req'[c].web_prompt.content
              IN  /\ Len(scrape_results) = Len(req[c].web_urls)
                  /\ IsFirstCharacters(sent, whole, max_length)
                  /\ sent # << >>
                  /\ \A i \in DOMAIN scrape_results :
                        (/\ Contribution(scrape_results[i]) # << >>
                         /\ StrLen(ScrapedUpTo(scrape_results, i)) <= max_length) =>
                            Contains(sent, scrape_results[i].v)
                  /\ req'[c].web_prompt.question = req[c].question
                  /\ req'[c].calls.query_llm = 1]_vars

\* The synthesis was requested with the short text of the first page
\* followed by the first characters of the long text of the second, the
\* budget being used up.
C23_Witness ==
    \E c \in Calls :
        /\ req[c].task["web"].st = "query_llm"
        /\ StrLen(req[c].web_prompt.content) = max_length
        /\ StartsWith(req[c].web_prompt.content,
                      PageText(URL_1) \o SCRAPE_SEP \o PageText(URL_2))
        /\ ~Contains(req[c].web_prompt.content, TEXT_FINAL)

(***************************************************************************)
(* The result of the web fetcher after its synthesis call                  *)
(***************************************************************************)

\* The synthesized text as extract_clean_answer leaves it.
SynthesizedText == Strip(probe.text)

\* The error detector of line 267 applies to the synthesized text.
LooksLikeErrorReport ==
    LET low == Lower(SynthesizedText)
    IN  /\ Contains(low, ERROR_LOWER)
        /\ Contains(low, <<"llm">>) \/ Contains(low, GENERATING_RESPONSE)

\* The synthesized text is taken for a negative finding (lines 266, 268).
LooksLikeNonAnswer ==
    LET low == Lower(SynthesizedText)
    IN  \/ ContainsAny(low, web_non_answer_phrases)
        \/ /\ StrLen(SynthesizedText) < WebHedgeThreshold
           /\ Contains(low, MARK_BASED_ON) \/ Contains(low, MARK_CONTENT)

\* C24 (as stated): after its synthesis call the web fetcher returns the
\* synthesized text or WEB_NO_SPECIFIC and nothing else, and WEB_NO_SPECIFIC
\* for a text with "error" and "llm" or "generating response".
C24_SynthesisResultIsTextOrMissing ==
    ClassifiedByWeb =>
        /\ probe.out \in {Str(SynthesizedText), Str(WEB_NO_SPECIFIC)}
        /\ LooksLikeErrorReport => probe.out = Str(WEB_NO_SPECIFIC)

\* C24 (amended): after its synthesis call the web fetcher returns one of
\* three things, the synthesized text, WEB_NO_SPECIFIC or WEB_SYNTH_ERROR.
\* WEB_SYNTH_ERROR is returned for an empty completion and for a text that
\* contains "Error:"; otherwise WEB_NO_SPECIFIC for a text taken for a
\* negative finding; otherwise WEB_SYNTH_ERROR for a text with "error" and
\* "llm" or "generating response" in any letter case; otherwise the text.
C24_SynthesisResultIsTextOrMissing_Amended ==
    ClassifiedByWeb =>
        /\ probe.out \in {Str(SynthesizedText), Str(WEB_NO_SPECIFIC), Str(WEB_SYNTH_ERROR)}
        /\ probe.out =
              (IF probe.text = << >> \/ HasQueryError THEN Str(WEB_SYNTH_ERROR)
               ELSE IF LooksLikeNonAnswer THEN Str(WEB_NO_SPECIFIC)
               ELSE IF LooksLikeErrorReport THEN Str(WEB_SYNTH_ERROR)
               ELSE Str(SynthesizedText))

\* The web fetcher was given a text with "Error" and "LLM" that carries
\* neither "Error:" nor a negative finding, and returned WEB_SYNTH_ERROR.
C24_Witness ==
    /\ ClassifiedByWeb
    /\ probe.text = ERROR_UPPER \o SPACE \o FROM_LLM_UPPER \o TRAIL_DOT
    /\ ~HasQueryError
    /\ probe.out = Str(WEB_SYNTH_ERROR)

(***************************************************************************)
(* The raw answers of the returned bundle                                  *)
(***************************************************************************)

\* The value lines 398-401 record for source k of s: what the task
\* returned, the "Error in ... task" string of the exception it raised, or,
\* for the web after a failed search, the message of the search step.
Recorded(s, k) ==
    IF k = "web" /\ Truthy(s.initial_web_error) THEN s.initial_web_error
    ELSE IF IsException(s.task[k].out) THEN Str(TaskErrorPrefix(k) \o s.task[k].out.v)
    ELSE s.task[k].out

\* aggregate_answers classifies the answer it was given for source k of s
\* as available.
ClassifiedAvailable(s, k) ==
    CASE k = "rag" -> RagIsAvailable(s.agg.rag_answer)
      [] k = "llm" -> LlmIsAvailable(s.agg.llm_answer)
      [] k = "web" -> WebIsAvailable(s.agg.web_answer)

\* The prompt inputs of lines 297-299.
Placeholders == {RAG_PLACEHOLDER, LLM_PLACEHOLDER, WEB_PLACEHOLDER}

\* The aggregation of call c is in progress, or ends, in this step.
Aggregating(c) == req[c].pc = "DONE" /\ req'[c].pc = "DONE"

\* C25: from the barrier to the return the rag, llm and web fields of the
\* bundle hold the values recorded when the tasks had settled; the
\* aggregator is given these values, and neither its classification nor its
\* completion calls change them: a field whose answer is classified
\* unavailable keeps the raw answer and never holds the placeholder of the
\* prompt.
C25_RawAnswersUnchanged ==
    /\ [](\A c \in Calls : \A k \in Sources :
             LET s == req[c]
             IN  s.pc = "DONE" =>
                    /\ s.results[k] = Recorded(s, k)
                    /\ IsStr(s.results[k])
                    /\ s.results[k].v \notin Placeholders
                    /\ s.agg.rag_answer = s.results.rag
                    /\ s.agg.llm_answer = s.results.llm
                    /\ s.agg.web_answer = s.results.web)
    /\ [][\A c \in Calls :
             Aggregating(c) =>
                 /\ req'[c].results.rag = req[c].results.rag
                 /\ req'[c].results.llm = req[c].results.llm
                 /\ req'[c].results.web = req[c].results.web
                 /\ req'[c].results.sources = req[c].results.sources]_vars

\* A call returned after a completion call of the aggregator, the document
\* answer and the web answer having been classified unavailable: the
\* bundle holds the two raw messages.
C25_Witness ==
    \E c \in Calls :
        /\ req[c].outcome = "returned"
        /\ req[c].calls.agg_ainvoke = 1
        /\ ~ClassifiedAvailable(req[c], "rag") /\ ~ClassifiedAvailable(req[c], "web")
        /\ ClassifiedAvailable(req[c], "llm")
        /\ req[c].results.rag = Str(RAG_NO_ANSWER)
        /\ req[c].results.web = Str(WEB_NO_SPECIFIC)

(***************************************************************************)
(* The writes to the bundle                                                *)
(***************************************************************************)

\* Field f of the bundle of call c is given another value in this step.
Written(c, f) == req'[c].results[f] # req[c].results[f]

\* The steps of the handler of call c itself: the search settles (lines
\* 366-383), the barrier is passed (lines 396-401), the aggregation ends
\* (lines 421-428).
SearchStep(c) == req[c].pc = "SEARCHING" /\ req'[c].pc = "FETCHING"

BarrierStep(c) == req[c].pc = "FETCHING" /\ req'[c].pc = "DONE"

ReturnStep(c) == req[c].outcome = "none" /\ req'[c].outcome = "returned"

\* A step of a fetcher task of call c, or of a scrape of its web fetcher.
TaskStep(c) ==
    /\ req[c].pc = "FETCHING" /\ req'[c].pc = "FETCHING"
    /\ req'[c].task # req[c].task \/ req'[c].scrape_results # req[c].scrape_results

\* C26: after the creation of the bundle (a new one for each call) every
\* field is written at most once, by the handler itself: sources by the
\* search step; web by the search step when the search failed and by the
\* barrier step otherwise, never by both; rag and llm by the barrier step;
\* final by the step that returns, with the value of the aggregator (the
\* replacement of an empty value never takes place).  No step of a fetcher
\* task, and no step of another call, writes to the bundle.
C26_FieldsWrittenOnce ==
    [][\A c \in Calls :
          /\ CallEntered(c) => req'[c].results = NewBundle
          /\ ~CallEntered(c) =>
                /\ Written(c, "sources") => SearchStep(c)
                /\ Written(c, "rag") => BarrierStep(c)
                /\ Written(c, "llm") => BarrierStep(c)
                /\ Written(c, "web") =>
                      \/ SearchStep(c) /\ Truthy(req'[c].initial_web_error)
                      \/ BarrierStep(c) /\ ~Truthy(req[c].initial_web_error)
                /\ Written(c, "final") =>
                      /\ ReturnStep(c)
                      /\ req'[c].results.final # Str(FINAL_EMPTY)
                /\ (Written(c, "web") /\ BarrierStep(c)) =>
                      req[c].results.web = NewBundle.web
                /\ TaskStep(c) => req'[c].results = req[c].results
                /\ req'[c].pc = req[c].pc /\ req'[c].agg.st = req[c].agg.st
                      /\ req'[c].outcome = req[c].outcome =>
                      req'[c].results = req[c].results]_vars

\* A call that launched its web fetcher returned with each of the five
\* fields written.
C26_Witness ==
    \E c \in Calls :
        /\ req[c].outcome = "returned"
        /\ req[c].should_run_web_task
        /\ req[c].calls.query_llm = 1
        /\ \A f \in BundleKeys : req[c].results[f] # NewBundle[f]

\* The words of a question.
Words(question) == {question[i] : i \in DOMAIN question}

\* The words that only the questions of the other calls hold: "queue" for
\* the first call, "stack" for the second.
ForeignWords(c) ==
    UNION {Words(q) : q \in UNION {QuestionsOf(d) : d \in Calls \ {c}}}
      \ UNION {Words(q) : q \in QuestionsOf(c)}

\* The text holds a word of another call's question.
MentionsForeign(c, text) == \E w \in ForeignWords(c) : Contains(text, <<w>>)

\* The texts call c holds: the fields of its bundle, what its tasks and its
\* scrapes returned, and what it put into its prompts.
TextsOf(c) ==
    {req[c].results[f].v : f \in {"rag", "llm", "web", "final"}}
      \cup {req[c].results.sources[i] : i \in DOMAIN req[c].results.sources}
      \cup {req[c].web_urls[i] : i \in DOMAIN req[c].web_urls}
      \cup {req[c].task[k].out.v : k \in Sources}
      \cup {req[c].scrape_results[i].v : i \in DOMAIN req[c].scrape_results}
      \cup {req[c].web_prompt.content, req[c].web_prompt.question, req[c].question}
      \cup {req[c].agg.rag_answer.v, req[c].agg.llm_answer.v, req[c].agg.web_answer.v}

\* C28: of two calls of get_comprehensive_answer served at a time by one
\* agent, each holds and returns only what was fetched and aggregated on its
\* own question: no text of a call holds a word of the other's question, the
\* answers its chain and its baseline completion gave are the ones in its
\* bundle, its sources are the hits of its own search, and a step of one
\* call leaves the frame of the other as it was.
C28_ConcurrentCallsDoNotMix ==
    /\ [](\A c \in Calls :
             /\ \A text \in TextsOf(c) : ~MentionsForeign(c, text)
             /\ req[c].outcome = "returned" =>
                   /\ req[c].seen.chain_ainvoke = "dict" =>
                         req[c].results.rag = Str(AnswerTo(req[c].question))
                   /\ req[c].seen.llm_ainvoke = "AIMessage" =>
                         req[c].results.llm = Str(AnswerTo(req[c].question))
                   /\ req[c].search_result.t = "list" =>
                         req[c].results.sources = HitsFor(req[c].question)
                   /\ req[c].seen.agg_ainvoke = "AIMessage" =>
                         req[c].results.final = Str(AnswerTo(req[c].question)))
    /\ [][\A c \in Calls : \A d \in Calls \ {c} :
             req'[c] # req[c] => req'[d] = req[d]]_vars

\* Both calls are in flight, each awaiting its aggregation with the answers
\* and the hits on its own question in its bundle, the chain being shared.
C28_Witness ==
    /\ qa_chain
    /\ \A c \in Calls :
          /\ req[c].outcome = "none" /\ req[c].agg.st = "ainvoke"
          /\ req[c].results.rag = Str(AnswerTo(req[c].question))
          /\ req[c].results.llm = Str(AnswerTo(req[c].question))
          /\ req[c].results.web = Str(AnswerTo(req[c].question))
          /\ req[c].results.sources = HitsFor(req[c].question)
    /\ req["c1"].results.rag # req["c2"].results.rag

\* The completion call of the aggregation of s is awaited: llm.ainvoke of
\* line 324, or llm.invoke of line 334.
CompletionAttempted(s) == s.agg.st \in {"ainvoke", "invoke"}

\* The completion of the aggregation of s failed: lines 346-353, or 338-345.
AggregationFailed(s) ==
    s.seen.agg_ainvoke = "Exception" \/ s.seen.agg_invoke \in {"Exception", "NotImplementedError"}

\* An "(Aggregation Failed)" answer that carries the answer of a source
\* classified available.
FailedAnswersOf(s) ==
    {AGG_FAILED_DOCS \o s.agg.rag_answer.v : x \in {k \in {"rag"} : ClassifiedAvailable(s, k)}}
      \cup {AGG_FAILED_WEB \o s.agg.web_answer.v :
               x \in {k \in {"web"} : ClassifiedAvailable(s, k)}}
      \cup {AGG_FAILED_LLM \o s.agg.llm_answer.v :
               x \in {k \in {"llm"} : ClassifiedAvailable(s, k)}}

\* C29: aggregate_answers never returns one of its two generic "no fallback
\* source was available" messages: while its completion call is awaited a
\* source is classified available, and when the call fails the answer
\* returned is an "(Aggregation Failed)" answer carrying an available source.
C29_GenericFailureUnreachable ==
    \A c \in Calls :
        /\ req[c].results.final \notin {Str(AGG_NO_FALLBACK), Str(AGG_NO_FALLBACK_SYNC)}
        /\ CompletionAttempted(req[c]) => \E k \in Sources : ClassifiedAvailable(req[c], k)
        /\ (req[c].outcome = "returned" /\ AggregationFailed(req[c])) =>
              /\ StartsWith(req[c].results.final.v, AGG_FAILED)
              /\ req[c].results.final.v \in FailedAnswersOf(req[c])

\* The completion call of the aggregation failed on each path, with the
\* documents unavailable: the call returned the answer of the web.
C29_Witness ==
    \E c \in Calls :
        /\ req[c].outcome = "returned"
        /\ req[c].seen.agg_ainvoke = "NotImplementedError"
        /\ req[c].seen.agg_invoke = "Exception"
        /\ ~ClassifiedAvailable(req[c], "rag")
        /\ req[c].results.final = Str(AGG_FAILED_WEB \o req[c].agg.web_answer.v)

(***************************************************************************)
(* Properties of the knowledge base and of the application's chats         *)
(***************************************************************************)

\* create_knowledge_base is not running and has ended at least once.
KnowledgeBaseReturned == upload.pc = "idle" /\ upload.ended > 0

\* get_rag_answer on thread t was called after the last
\* create_knowledge_base had ended.
CalledAfterReturn(t) == rag_call[t].pc # "idle" /\ rag_call[t].entered_at = upload.ended

\* C27: when create_knowledge_base returns or raises, self.qa_chain is
\* None, and a get_rag_answer called after that uses only a chain built from
\* the index as it then is; a get_rag_answer on any thread ends with a
\* string, and each time it calls the chain, self.qa_chain holds one.
C27_ClearedChainIsRebuilt ==
    /\ [](\A t \in Threads :
             /\ (KnowledgeBaseReturned /\ CalledAfterReturn(t)) =>
                   \A i \in 1..Len(rag_call[t].used) : rag_call[t].used[i] = index
             /\ rag_call[t].pc = "done" => IsStr(rag_call[t].out))
    /\ [][/\ upload'.ended > upload.ended => ~qa_chain'
          /\ \A t \in Threads :
                Len(rag_call'[t].used) > Len(rag_call[t].used) =>
                   /\ qa_chain
                   /\ rag_call'[t].used = Append(rag_call[t].used, built_from)]_vars

\* The chats that a step removed from chats.
DeletedChats == ChatKeys(session_state) \ ChatKeys(session_state')

\* C30: current_chat_id is the key of one of the chats, so chats is not
\* empty; a step that deletes the current chat selects the most recently
\* created of the chats that remain or, when none remains, creates a chat
\* and selects it; a step that deletes another chat leaves current_chat_id
\* as it was, and a step that creates a chat selects it.
C30_CurrentChatExists ==
    /\ [](/\ session_state.chats # << >>
          /\ session_state.current_chat_id \in ChatKeys(session_state))
    /\ [][LET s == session_state
              t == session_state'
          IN  /\ \A chat_id \in DeletedChats :
                    /\ ChatKeys(s) \ ChatKeys(t) = {chat_id}
                    /\ IF chat_id # s.current_chat_id
                       THEN /\ t.current_chat_id = s.current_chat_id
                            /\ ChatKeys(t) = ChatKeys(s) \ {chat_id}
                       ELSE IF ChatKeys(s) # {chat_id}
                       THEN /\ ChatKeys(t) = ChatKeys(s) \ {chat_id}
                            /\ t.current_chat_id \in ChatKeys(t)
                            /\ \A other \in ChatKeys(t) : other <= t.current_chat_id
                       ELSE /\ Len(t.chats) = 1
                            /\ t.current_chat_id = t.chats[1].id
                            /\ t.current_chat_id > s.created
              /\ (DeletedChats = {} /\ t # s) =>
                    /\ Len(t.chats) = Len(s.chats) + 1
                    /\ t.current_chat_id = t.chats[Len(t.chats)].id
                    /\ t.current_chat_id \notin ChatKeys(s)]_vars

\* The current chat, the last one created, was deleted with two older chats
\* left, and the newer of them is selected; the older of them is the chat
\* that replaced the first chat when it was deleted as the only one.
C30_Witness ==
    /\ Len(session_state.chats) = 2
    /\ session_state.created = session_state.chats[2].id + 1
    /\ session_state.current_chat_id = session_state.chats[2].id
    /\ session_state.chats[1].id > 1
    /\ session_state.chats[1].name = 1

=============================================================================
